---- MODULE Spec2Model ----
(***************************************************************************)
(* A model of TreePT's issue analyzer (src/next_context.py), its route     *)
(* analyzer (src/nextjs_analyzer.py) and its solution service              *)
(* (src/openai_service.py).                                                *)
(*                                                                         *)
(*   Spec            AIIssueAnalyzer.analyze_issue: repository discovery,  *)
(*                   identify_relevant_files, build_file_structure with    *)
(*                   its concurrent per-file tasks, the back-reference     *)
(*                   pass, and the abort signal handler.                   *)
(*   SpecRequest     GitHubRepoAnalyzer.github_request, get_file_content   *)
(*                   and get_file_content_async: one HTTP request with its *)
(*                   rate-limit wait and its retry on HTTP 429.            *)
(*   SpecRequestFair SpecRequest with weak fairness of the request steps.  *)
(*   SpecMain        main and async_main: the command line, up to the      *)
(*                   start of the analysis.                                *)
(*   SpecFilter      get_relevant_repo_files' filter over the tree.        *)
(*   SpecExplore     explore_repository and its per-level thread pools.    *)
(*   SpecResolve     process_file's resolution of one import string.       *)
(*   SpecExcerpt     extract_relevant_code: the import scan, the chat call *)
(*                   and the fallback excerpt.                             *)
(*   SpecNextjs      nextjs_analyzer.py: analyze_nextjs_app and the route  *)
(*                   flags of process_directory.                           *)
(*   SpecSample      _smart_sample_files.                                  *)
(*   SpecProgressive get_relevant_repo_files' choice between the tree      *)
(*                   listing and the directory exploration.                *)
(*   SpecSolution    openai_service.py: get_repo_analysis and the          *)
(*                   /generate-solution handler.                           *)
(*                                                                         *)
(* A path is the sequence of its '/'-separated segments, and so is an      *)
(* import string: "./utils" is <<".", "utils">>, "/abs/local" is           *)
(* <<"", "abs", "local">>.                                                 *)
(***************************************************************************)
EXTENDS Integers, Sequences, FiniteSets, TLC

VARIABLES
    cancelled,               \* the module-level cancellation flag
    pc,                      \* position of analyze_issue
    netCalls,                \* outbound network calls started so far
    max_files,               \* analyze_issue's max_files argument
    remote,                  \* what the raw-content endpoint serves for each path
    visited_dirs,            \* explore_repository's visited directory set
    all_files,               \* get_relevant_repo_files' result
    reply,                   \* the chat model's reply to identify_relevant_files
    relevant_files,          \* identify_relevant_files' result
    tpc,                     \* position of each process_file task
    tdata,                   \* the value each process_file task returned
    file_contents,           \* GitHubRepoAnalyzer.file_contents, the content cache
    depKeys,                 \* keys of `dependencies`, in insertion order
    dependencies,            \* build_file_structure's dependencies map
    relevant_file_structure, \* build_file_structure's result dict
    finIdx,                  \* position of the imported_by loop in depKeys
    result,                  \* the value analyze_issue returned
    gr_fn,                   \* which request function is running
    gr_pc,                   \* its position
    clock,                   \* time.time(), in seconds
    rate_limit_remaining,    \* GitHubRepoAnalyzer.rate_limit_remaining
    rate_limit_reset,        \* GitHubRepoAnalyzer.rate_limit_reset
    status,                  \* the response (or exception) of the last attempt
    attempts,                \* attempts made for the current request
    gr_result                \* how the current request ended

VARIABLES
    m_pc,                    \* position of main / async_main
    args,                    \* the parsed command line
    issue_text,              \* main's issue_text
    exit_status,             \* the process's exit status, -1 while it runs
    message,                 \* the last message printed
    requests_made,           \* network requests started by this process
    f_pc,                    \* position of get_relevant_repo_files
    repo_tree,               \* get_repo_tree's result
    code_files,              \* get_relevant_repo_files' result
    shape,                   \* the repository's directories, as the API lists them
    e_pc,                    \* position of each explore_repository call
    e_visited,               \* the visited_dirs set the calls share
    e_ret,                   \* what each explore_repository call returned
    rs_pc,                   \* position of the import resolution
    rs_file_path,            \* process_file's file_path
    rs_import_path,          \* the import string being resolved
    rs_relevant_files,       \* build_file_structure's relevant_files
    rs_imports,              \* the entries added to `imports`
    x_pc,                    \* position of extract_relevant_code
    x_cancelled,             \* the cancellation flag, as extract_relevant_code reads it
    x_content,               \* the file content get_file_content_async returns
    x_reply,                 \* the chat model's reply to the excerpt prompt
    imports_section,         \* extract_relevant_code's imports_section
    x_excerpt,               \* the text extract_relevant_code returned
    n_pc,                    \* position of nextjs_analyzer's __main__ / analyze_nextjs_app
    app_dir,                 \* the app_dir argument: what the path names
    n_todo,                  \* the directories process_directory has still to visit
    n_done,                  \* the result dicts of the directories visited, in order
    n_written,               \* the output files written
    n_message,               \* the last message printed
    n_exit,                  \* the process's exit status, -1 while it runs
    s_pc,                    \* position of the sampling step of get_relevant_repo_files
    s_code_files,            \* code_files, the filtered list
    s_max_files,             \* the max_files argument
    s_result,                \* the list returned
    p_pc,                    \* position of progressive_repo_exploration
    tree_data,               \* the answer to the recursive tree request
    p_explored,              \* what explore_repository gives when it is called
    p_result,                \* the list progressive_repo_exploration returned
    g_pc,                    \* position of the /generate-solution handler
    analysis_file,           \* nextjs_dependency_graph.json, as it is on disk
    summary_file,            \* repo_summary.txt, as it is on disk
    repo_analysis,           \* get_repo_analysis' repo_analysis
    repo_summary,            \* get_repo_analysis' repo_summary
    repo_context,            \* whether the prompt holds the repository context
    g_called,                \* whether the chat model has been called
    g_status                 \* the HTTP status of the response, 0 before it

pipeVars == <<cancelled, pc, netCalls, max_files, remote,
              visited_dirs, all_files, reply, relevant_files, tpc, tdata,
              file_contents, depKeys, dependencies, relevant_file_structure,
              finIdx, result>>
reqVars == <<gr_fn, gr_pc, clock, rate_limit_remaining, rate_limit_reset,
             status, attempts, gr_result>>
mainVars == <<m_pc, args, issue_text, exit_status, message, requests_made>>
filterVars == <<f_pc, repo_tree, code_files>>
exploreVars == <<shape, e_pc, e_visited, e_ret>>
resolveVars == <<rs_pc, rs_file_path, rs_import_path, rs_relevant_files,
                 rs_imports>>
excerptVars == <<x_pc, x_cancelled, x_content, x_reply, imports_section,
                 x_excerpt>>
nextjsVars == <<n_pc, app_dir, n_todo, n_done, n_written, n_message, n_exit>>
sampleVars == <<s_pc, s_code_files, s_max_files, s_result>>
progressiveVars == <<p_pc, tree_data, p_explored, p_result>>
solutionVars == <<g_pc, analysis_file, summary_file, repo_analysis,
                  repo_summary, repo_context, g_called, g_status>>
vars == <<pipeVars, reqVars, mainVars, filterVars, exploreVars, resolveVars,
          excerptVars, nextjsVars, sampleVars, progressiveVars, solutionVars>>

\* what the steps of one part of the program leave alone
offPipe == <<reqVars, mainVars, filterVars, exploreVars, resolveVars,
             excerptVars, nextjsVars, sampleVars, progressiveVars,
             solutionVars>>
offReq == <<pipeVars, mainVars, filterVars, exploreVars, resolveVars,
            excerptVars, nextjsVars, sampleVars, progressiveVars,
            solutionVars>>
offMain == <<pipeVars, reqVars, filterVars, exploreVars, resolveVars,
             excerptVars, nextjsVars, sampleVars, progressiveVars,
             solutionVars>>
offFilter == <<pipeVars, reqVars, mainVars, exploreVars, resolveVars,
               excerptVars, nextjsVars, sampleVars, progressiveVars,
               solutionVars>>
offExplore == <<pipeVars, reqVars, mainVars, filterVars, resolveVars,
                excerptVars, nextjsVars, sampleVars, progressiveVars,
                solutionVars>>
offResolve == <<pipeVars, reqVars, mainVars, filterVars, exploreVars,
                excerptVars, nextjsVars, sampleVars, progressiveVars,
                solutionVars>>
offExcerpt == <<pipeVars, reqVars, mainVars, filterVars, exploreVars,
                resolveVars, nextjsVars, sampleVars, progressiveVars,
                solutionVars>>
offNextjs == <<pipeVars, reqVars, mainVars, filterVars, exploreVars,
               resolveVars, excerptVars, sampleVars, progressiveVars,
               solutionVars>>
offSample == <<pipeVars, reqVars, mainVars, filterVars, exploreVars,
               resolveVars, excerptVars, nextjsVars, progressiveVars,
               solutionVars>>
offProgressive == <<pipeVars, reqVars, mainVars, filterVars, exploreVars,
                    resolveVars, excerptVars, nextjsVars, sampleVars,
                    solutionVars>>
offSolution == <<pipeVars, reqVars, mainVars, filterVars, exploreVars,
                 resolveVars, excerptVars, nextjsVars, sampleVars,
                 progressiveVars>>

----------------------------------------------------------------------------
(* Bounds of the model. *)

\* longest list of paths the chat model's reply may hold
MaxReply == 2
\* largest max_files argument
MaxFilesArg == 2
\* last second of the clock that is told apart; later times read as this one
MaxClock == 3
\* attempts of one request that are counted; further ones read as this many
MaxAttempts == 3

----------------------------------------------------------------------------
(* Sequences and paths. *)

Range(s) == {s[i] : i \in 1..Len(s)}

SeqsUpTo(S, n) == UNION {[1..k -> S] : k \in 0..n}

Min(S) == CHOOSE x \in S : \A y \in S : x <= y

\* list[:n] for n >= 0
Take(s, n) == SubSeq(s, 1, IF n < Len(s) THEN n ELSE Len(s))

\* number of entries of s equal to x
Count(s, x) == Cardinality({i \in 1..Len(s) : s[i] = x})

\* self.extensions
extensions == <<".js", ".jsx", ".ts", ".tsx", ".mjs", ".cjs">>

\* pathlib's parsing of a relative path string: empty and "." segments are
\* dropped, ".." segments are kept as they are
PathParts(raw) == SelectSeq(raw, LAMBDA s : s # "" /\ s # ".")

\* Path(file_path).parent
Parent(p) == SubSeq(p, 1, Len(p) - 1)

\* str(base_dir / import_path), for an import_path that starts with '.'
JoinPath(base_dir, import_path) == base_dir \o PathParts(import_path)

\* resolved_path + ext (str of the empty path is ".")
WithExt(p, ext) ==
    IF p = <<>> THEN <<"." \o ext>> ELSE [p EXCEPT ![Len(p)] = @ \o ext]

\* import_path.startswith('.')
StartsWithDot(import_path) ==
    import_path # <<>> /\ Head(import_path) \in {".", ".."}

\* import_path.startswith('/')
StartsWithSlash(import_path) ==
    Len(import_path) > 1 /\ Head(import_path) = ""

----------------------------------------------------------------------------
(* The repository under analysis. *)

IndexTsx == <<"src", "pages", "index.tsx">>
UtilsTs == <<"src", "pages", "utils.ts">>
ButtonTsx == <<"src", "components", "Button.tsx">>
\* a path the chat model may name that is not in the repository
UnknownJs == <<"lib", "ghost.js">>

RepoFiles == <<IndexTsx, UtilsTs, ButtonTsx>>
RepoFileSet == Range(RepoFiles)

\* the directories explore_repository lists, "" first
RepoDirs == {<<>>} \cup {SubSeq(f, 1, k) : f \in RepoFileSet, k \in 1..2}

\* A served file: the HTTP outcome and, for a 200, the text, given by its
\* length class and the import strings each of the three regexes finds in it.
NotFound == [http |-> "404", empty |-> TRUE,
             es6 |-> <<>>, dynamic |-> <<>>, require |-> <<>>]
ClientError == [http |-> "error", empty |-> TRUE,
                es6 |-> <<>>, dynamic |-> <<>>, require |-> <<>>]
EmptyText == [http |-> "200", empty |-> TRUE,
              es6 |-> <<>>, dynamic |-> <<>>, require |-> <<>>]
Text(es6, dynamic, require) ==
    [http |-> "200", empty |-> FALSE,
     es6 |-> es6, dynamic |-> dynamic, require |-> require]

IndexText ==
    Text(<<<<".", "utils">>, <<"..", "components", "Button">>, <<"react">>>>,
         <<<<".", "utils">>>>,
         <<<<".", "missing">>, <<"", "abs", "local">>>>)
UtilsText == Text(<<<<".", "index">>>>, <<>>, <<>>)
ButtonText == Text(<<>>, <<>>, <<<<"react">>>>)

Remotes ==
    {[f \in RepoFileSet |->
        IF f = IndexTsx THEN i ELSE IF f = UtilsTs THEN u ELSE b] :
     i \in {IndexText, NotFound},
     u \in {UtilsText, NotFound, EmptyText},
     b \in {ButtonText, ClientError}}

----------------------------------------------------------------------------
(* Python values. *)

\* {}
EmptyDict == [k \in {} |-> TRUE]

\* d[k] = v
DictPut(d, k, v) == [x \in DOMAIN d \cup {k} |-> IF x = k THEN v ELSE d[x]]

\* `not content`: None (no 200 response) or the empty string
IsFalsy(content) == content.http # "200" \/ content.empty

\* what a call leaves its caller with: a returned list, or an exception
Returned(files) == [raised |-> FALSE, error |-> "", files |-> files]
Raised(error) == [raised |-> TRUE, error |-> error, files |-> <<>>]

\* process_file's (file_path, None)
NoData == [present |-> FALSE]

----------------------------------------------------------------------------
(* identify_relevant_files, after the chat call. *)

\* What the chat call comes back with, as json.loads sees it:
\*   error    the call raised
\*   garbage  text that is no JSON (JSONDecodeError)
\*   scalar   JSON that cannot be iterated, a number or null (TypeError)
\*   array    JSON whose iteration yields `paths`
Replies ==
    {[kind |-> k, paths |-> <<>>] : k \in {"error", "garbage", "scalar"}}
    \cup {[kind |-> "array", paths |-> s] :
            s \in SeqsUpTo(RepoFileSet \cup {UnknownJs}, MaxReply)}
NoReply == [kind |-> "none", paths |-> <<>>]

\* the reply's paths taken as they are
validated_files_unchecked(paths, files) == paths

\* [file_path for file_path in relevant_files if file_path in all_files]
validated_files(paths, files) ==
    SelectSeq(paths, LAMBDA p : p \in Range(files))

\* _fallback_relevant_files: its first statement calls
\* self._prefilter_files_by_keywords, a method AIIssueAnalyzer does not
\* define, so the attribute lookup raises before anything is computed.
fallback_relevant_files(files, maxFiles) == Raised("AttributeError")

\* the inner try block, lines 687-703
parse_reply(r, files, maxFiles) ==
    IF r.kind = "garbage" THEN fallback_relevant_files(files, maxFiles)
    ELSE IF r.kind = "scalar" THEN Raised("TypeError")
    ELSE LET validated == validated_files(r.paths, files)
         IN  IF Len(validated) = 0
             THEN LET fb == fallback_relevant_files(files, maxFiles)
                  IN  IF fb.raised THEN fb
                      ELSE Returned(Take(fb.files, maxFiles))
             ELSE Returned(Take(validated, maxFiles))

\* lines 675-710: the reply is in, `flag` is the cancellation flag
identify_after_call(r, flag, files, maxFiles) ==
    LET body == IF r.kind = "error" THEN Raised("APIError")
                ELSE IF flag THEN Returned(<<>>)
                ELSE parse_reply(r, files, maxFiles)
    IN  IF ~body.raised THEN body
        ELSE IF flag THEN Returned(<<>>)
        ELSE fallback_relevant_files(files, maxFiles)

----------------------------------------------------------------------------
(* process_file's import resolution. *)

\* GitHubRepoAnalyzer.extract_imports: the ES6 matches, then the dynamic
\* imports, then the requires
extract_imports(content) ==
    content.es6 \o content.dynamic \o content.require

\* a target looked up among the files fetched so far
IsKnownTarget_fetched(candidate, selected, cache) ==
    candidate \in DOMAIN cache

\* `resolved_path + ext in relevant_files`
IsKnownTarget(candidate, selected, cache) == candidate \in Range(selected)

\* the first extension, by position in self.extensions, that names a selected
\* file; 0 when none does
FirstExt(resolved_path, selected, cache) ==
    LET hits == {k \in 1..Len(extensions) :
                   IsKnownTarget(WithExt(resolved_path, extensions[k]),
                                 selected, cache)}
    IN  IF hits = {} THEN 0 ELSE Min(hits)

\* the entries one import string adds to `imports`: one internal edge, or none
EdgeOf(file_path, import_path, selected, cache) ==
    IF (StartsWithDot(import_path) \/ StartsWithSlash(import_path))
       /\ StartsWithDot(import_path)
    THEN LET resolved_path == JoinPath(Parent(file_path), import_path)
             k == FirstExt(resolved_path, selected, cache)
         IN  IF k = 0 THEN <<>>
             ELSE <<[type |-> "internal", path |-> import_path,
                     resolved |-> WithExt(resolved_path, extensions[k])]>>
    ELSE <<>>

RECURSIVE ImportEdges(_, _, _, _)
\* the `imports` list process_file builds, lines 868-888
ImportEdges(file_path, import_paths, selected, cache) ==
    IF import_paths = <<>> THEN <<>>
    ELSE EdgeOf(file_path, Head(import_paths), selected, cache)
         \o ImportEdges(file_path, Tail(import_paths), selected, cache)

\* the targets process_file adds to dependencies[file_path]
EdgeTargets(imports) == {imports[k].resolved : k \in 1..Len(imports)}

\* lines 919-924, for one importing file: each imported file that is in the
\* structure gets file_path appended to its imported_by, unless already there
AddBackRefs(structure, file_path, imported_files) ==
    [p \in DOMAIN structure |->
        IF /\ p \in imported_files
           /\ file_path \notin Range(structure[p].imported_by)
        THEN [structure[p] EXCEPT !.imported_by = Append(@, file_path)]
        ELSE structure[p]]

\* a collection that gives up when one of the results is None
CollectResults_stop(paths, results, k) ==
    [p \in (IF \A j \in 1..k : results[j].present
            THEN {paths[j] : j \in 1..k} ELSE {}) |->
        results[CHOOSE j \in 1..k :
                  /\ paths[j] = p
                  /\ \A i \in (j + 1)..k : paths[i] # p]]

RECURSIVE CollectResults(_, _, _)
\* lines 912-914: the results, in task order, entered into the dict
CollectResults(paths, results, k) ==
    IF k = 0 THEN EmptyDict
    ELSE LET rest == CollectResults(paths, results, k - 1)
         IN  IF results[k].present
             THEN DictPut(rest, paths[k], results[k])
             ELSE rest

\* the dict analyze_issue returns
IssueGraph(structure, total) ==
    [project |-> [path |-> "repo_url", issue |-> "issue_text"],
     relevant_files |-> structure,
     metadata |-> [total_relevant_files |-> total]]
NoResult == [none |-> TRUE]

----------------------------------------------------------------------------
(* analyze_issue. *)

reqIdle ==
    /\ gr_fn = "none" /\ gr_pc = "idle" /\ clock = 0
    /\ rate_limit_remaining = 5000 /\ rate_limit_reset = 0
    /\ status = "none" /\ attempts = 0 /\ gr_result = "none"

\* main is not running
mainParked ==
    /\ m_pc = "parked" /\ args = <<>> /\ issue_text = "None"
    /\ exit_status = -1 /\ message = "none" /\ requests_made = 0

\* get_relevant_repo_files is not running
filterParked == f_pc = "parked" /\ repo_tree = <<>> /\ code_files = <<>>

\* explore_repository is not running
exploreParked ==
    /\ shape = <<>> /\ e_pc = <<>> /\ e_visited = {} /\ e_ret = <<>>

\* no import is being resolved
resolveParked ==
    /\ rs_pc = "parked" /\ rs_file_path = <<>> /\ rs_import_path = <<>>
    /\ rs_relevant_files = <<>> /\ rs_imports = <<>>

\* extract_relevant_code is not running
excerptParked ==
    /\ x_pc = "parked" /\ x_cancelled = FALSE /\ x_content = <<>>
    /\ x_reply = <<>> /\ imports_section = <<>> /\ x_excerpt = <<>>

\* nextjs_analyzer is not running
nextjsParked ==
    /\ n_pc = "parked" /\ app_dir = <<>> /\ n_todo = <<>> /\ n_done = <<>>
    /\ n_written = {} /\ n_message = "none" /\ n_exit = -1

\* no sampling is running
sampleParked ==
    /\ s_pc = "parked" /\ s_code_files = <<>> /\ s_max_files = 0
    /\ s_result = <<>>

\* progressive_repo_exploration is not running
progressiveParked ==
    /\ p_pc = "parked" /\ tree_data = <<>> /\ p_explored = <<>>
    /\ p_result = <<>>

\* no /generate-solution request is being handled
solutionParked ==
    /\ g_pc = "parked" /\ analysis_file = "none" /\ summary_file = "none"
    /\ repo_analysis = "None" /\ repo_summary = "None"
    /\ repo_context = FALSE /\ g_called = FALSE /\ g_status = 0

Init ==
    /\ cancelled = FALSE
    /\ pc = "start"
    /\ netCalls = 0
    /\ max_files \in 0..MaxFilesArg
    /\ remote \in Remotes
    /\ visited_dirs = {}
    /\ all_files = <<>>
    /\ reply = NoReply
    /\ relevant_files = <<>>
    /\ tpc = <<>>
    /\ tdata = <<>>
    /\ file_contents = EmptyDict
    /\ depKeys = <<>>
    /\ dependencies = EmptyDict
    /\ relevant_file_structure = EmptyDict
    /\ finIdx = 0
    /\ result = NoResult
    /\ reqIdle
    /\ mainParked /\ filterParked /\ exploreParked /\ resolveParked
    /\ solutionParked
    /\ progressiveParked
    /\ sampleParked
    /\ nextjsParked
    /\ excerptParked

Running == pc \notin {"returned", "raised"}

\* handle_abort_signal, delivered while analyze_issue runs
Abort ==
    /\ Running
    /\ ~cancelled
    /\ cancelled' = TRUE
    /\ UNCHANGED <<pc, netCalls, max_files, remote, visited_dirs, all_files,
                   reply, relevant_files, tpc, tdata, file_contents, depKeys,
                   dependencies, relevant_file_structure, finIdx, result>>
    /\ UNCHANGED offPipe

\* progressive_repo_exploration's request for the recursive tree; a complete
\* tree is filtered by get_relevant_repo_files, anything else falls back to
\* explore_repository
DiscoverTree ==
    /\ pc = "start"
    /\ netCalls' = netCalls + 1
    /\ \E tree \in {"complete", "truncated", "failed"} :
         IF tree = "complete"
         THEN pc' = "identify" /\ all_files' = RepoFiles
         ELSE pc' = "exploring" /\ all_files' = all_files
    /\ UNCHANGED <<cancelled, max_files, remote, visited_dirs, reply,
                   relevant_files, tpc, tdata, file_contents, depKeys,
                   dependencies, relevant_file_structure, finIdx, result>>
    /\ UNCHANGED offPipe

\* explore_repository for one directory: the visited check, the insertion
\* and the listing request
ExploreDir(d) ==
    /\ pc = "exploring"
    /\ d \notin visited_dirs
    /\ d = <<>> \/ Parent(d) \in visited_dirs
    /\ visited_dirs' = visited_dirs \cup {d}
    /\ netCalls' = netCalls + 1
    /\ UNCHANGED <<cancelled, pc, max_files, remote, all_files, reply,
                   relevant_files, tpc, tdata, file_contents, depKeys,
                   dependencies, relevant_file_structure, finIdx, result>>
    /\ UNCHANGED offPipe

\* the exploration is over; get_relevant_repo_files filters its items
ExploreDone ==
    /\ pc = "exploring"
    /\ visited_dirs = RepoDirs
    /\ pc' = "identify"
    /\ all_files' = RepoFiles
    /\ UNCHANGED <<cancelled, netCalls, max_files, remote, visited_dirs,
                   reply, relevant_files, tpc, tdata, file_contents, depKeys,
                   dependencies, relevant_file_structure, finIdx, result>>
    /\ UNCHANGED offPipe

\* identify_relevant_files up to the chat call: the two checks of the flag
\* (lines 620, 662), then the call
IdentifyCall ==
    /\ pc = "identify"
    /\ IF cancelled
       THEN /\ pc' = "identified"
            /\ relevant_files' = <<>>
            /\ netCalls' = netCalls
       ELSE /\ pc' = "model_call"
            /\ relevant_files' = relevant_files
            /\ netCalls' = netCalls + 1
    /\ UNCHANGED <<cancelled, max_files, remote, visited_dirs, all_files,
                   reply, tpc, tdata, file_contents, depKeys, dependencies,
                   relevant_file_structure, finIdx, result>>
    /\ UNCHANGED offPipe

\* the chat call is over: identify_relevant_files returns or raises
IdentifyReply ==
    /\ pc = "model_call"
    /\ \E r \in Replies :
         LET out == identify_after_call(r, cancelled, all_files, max_files)
         IN  /\ reply' = r
             /\ pc' = IF out.raised THEN "raised" ELSE "identified"
             /\ relevant_files' = out.files
    /\ UNCHANGED <<cancelled, netCalls, max_files, remote, visited_dirs,
                   all_files, tpc, tdata, file_contents, depKeys,
                   dependencies, relevant_file_structure, finIdx, result>>
    /\ UNCHANGED offPipe

\* analyze_issue lines 575-589 and build_file_structure up to the gather:
\* the empty result, or the tasks are created and the flag is checked
BuildEnter ==
    /\ pc = "identified"
    /\ IF relevant_files = <<>>
       THEN /\ pc' = "returned"
            /\ result' = IssueGraph(EmptyDict, 0)
            /\ UNCHANGED <<tpc, tdata>>
       ELSE IF cancelled
       THEN /\ pc' = "returned"
            /\ result' = IssueGraph(EmptyDict, Len(relevant_files))
            /\ UNCHANGED <<tpc, tdata>>
       ELSE /\ pc' = "gathering"
            /\ result' = result
            /\ tpc' = [i \in 1..Len(relevant_files) |-> "new"]
            /\ tdata' = [i \in 1..Len(relevant_files) |-> NoData]
    /\ UNCHANGED <<cancelled, netCalls, max_files, remote, visited_dirs,
                   all_files, reply, relevant_files, file_contents, depKeys,
                   dependencies, relevant_file_structure, finIdx>>
    /\ UNCHANGED offPipe

\* a task inside the blocking chat call keeps the event loop from running
\* any other task
LoopFree == \A j \in 1..Len(tpc) : tpc[j] # "excerpting"

\* process_file from the content on (lines 861-891), up to the chat call of
\* extract_relevant_code
Process(i, content) ==
    LET file_path == relevant_files[i]
        imports == ImportEdges(file_path, extract_imports(content),
                               relevant_files, file_contents')
    IN  IF cancelled \/ IsFalsy(content)
        THEN /\ tpc' = [tpc EXCEPT ![i] = "done"]
             /\ tdata' = [tdata EXCEPT ![i] = NoData]
             /\ UNCHANGED <<depKeys, dependencies, netCalls>>
        ELSE /\ tpc' = [tpc EXCEPT ![i] = "excerpting"]
             /\ tdata' = [tdata EXCEPT ![i] =
                            [present |-> TRUE, path |-> file_path,
                             relevant_content |-> "", imports |-> imports,
                             imported_by |-> <<>>]]
             /\ IF imports = <<>>
                THEN UNCHANGED <<depKeys, dependencies>>
                ELSE /\ depKeys' = IF file_path \in DOMAIN dependencies
                                   THEN depKeys
                                   ELSE Append(depKeys, file_path)
                     /\ dependencies' =
                          DictPut(dependencies, file_path,
                                  (IF file_path \in DOMAIN dependencies
                                   THEN dependencies[file_path] ELSE {})
                                  \cup EdgeTargets(imports))
             /\ netCalls' = netCalls + 1

\* process_file starts: the flag check, then get_file_content_async, which
\* answers from the cache or sends the request.  asyncio.gather starts the
\* tasks in list order, each running to its first suspension.
TaskStart(i) ==
    /\ pc = "gathering"
    /\ tpc[i] = "new"
    /\ \A j \in 1..(i - 1) : tpc[j] # "new"
    /\ LoopFree
    /\ IF cancelled
       THEN /\ tpc' = [tpc EXCEPT ![i] = "done"]
            /\ UNCHANGED <<tdata, depKeys, dependencies, netCalls,
                           file_contents>>
       ELSE IF relevant_files[i] \in DOMAIN file_contents
       THEN /\ file_contents' = file_contents
            /\ Process(i, file_contents[relevant_files[i]])
       ELSE /\ tpc' = [tpc EXCEPT ![i] = "fetching"]
            /\ netCalls' = netCalls + 1
            /\ UNCHANGED <<tdata, depKeys, dependencies, file_contents>>
    /\ UNCHANGED <<cancelled, pc, max_files, remote, visited_dirs, all_files,
                   reply, relevant_files, relevant_file_structure, finIdx,
                   result>>
    /\ UNCHANGED offPipe

\* the content response of task i arrives: a 200 is cached, a 404 or a client
\* error gives None; process_file goes on from there
TaskResponse(i) ==
    /\ pc = "gathering"
    /\ tpc[i] = "fetching"
    /\ \A j \in 1..Len(tpc) : tpc[j] # "new"
    /\ LoopFree
    /\ LET served == remote[relevant_files[i]]
       IN  /\ file_contents' = IF served.http = "200"
                               THEN DictPut(file_contents,
                                            relevant_files[i], served)
                               ELSE file_contents
           /\ Process(i, served)
    /\ UNCHANGED <<cancelled, pc, max_files, remote, visited_dirs, all_files,
                   reply, relevant_files, relevant_file_structure, finIdx,
                   result>>
    /\ UNCHANGED offPipe

\* the chat call of extract_relevant_code is over (with code blocks, without,
\* or with an exception); process_file checks the flag and returns
TaskFinish(i) ==
    /\ pc = "gathering"
    /\ tpc[i] = "excerpting"
    /\ tpc' = [tpc EXCEPT ![i] = "done"]
    /\ \E answer \in {"code_blocks", "no_blocks", "exception"} :
         tdata' = [tdata EXCEPT ![i] =
                     IF cancelled THEN NoData
                     ELSE [@ EXCEPT !.relevant_content =
                             IF answer = "code_blocks"
                             THEN "imports+blocks"
                             ELSE "imports+first_lines"]]
    /\ UNCHANGED <<cancelled, pc, netCalls, max_files, remote, visited_dirs,
                   all_files, reply, relevant_files, file_contents, depKeys,
                   dependencies, relevant_file_structure, finIdx, result>>
    /\ UNCHANGED offPipe

\* a wait that is over as soon as one task has completed
GatherReturns_first(tasks) == \E j \in 1..Len(tasks) : tasks[j] = "done"

\* `await asyncio.gather(*tasks)` is over: every task has completed
GatherReturns(tasks) == \A j \in 1..Len(tasks) : tasks[j] = "done"

\* asyncio.gather returns once every task is done; the results are entered
\* into relevant_file_structure
GatherDone ==
    /\ pc = "gathering"
    /\ GatherReturns(tpc)
    /\ pc' = "finalizing"
    /\ relevant_file_structure' =
         CollectResults(relevant_files, tdata, Len(relevant_files))
    /\ finIdx' = 1
    /\ UNCHANGED <<cancelled, netCalls, max_files, remote, visited_dirs,
                   all_files, reply, relevant_files, tpc, tdata,
                   file_contents, depKeys, dependencies, result>>
    /\ UNCHANGED offPipe

\* one round of the outer loop that builds the imported_by lists
FinalizeStep ==
    /\ pc = "finalizing"
    /\ finIdx <= Len(depKeys)
    /\ relevant_file_structure' =
         AddBackRefs(relevant_file_structure, depKeys[finIdx],
                     dependencies[depKeys[finIdx]])
    /\ finIdx' = finIdx + 1
    /\ UNCHANGED <<cancelled, pc, netCalls, max_files, remote, visited_dirs,
                   all_files, reply, relevant_files, tpc, tdata,
                   file_contents, depKeys, dependencies, result>>
    /\ UNCHANGED offPipe

\* build_file_structure returns and analyze_issue wraps its result
Return ==
    /\ pc = "finalizing"
    /\ finIdx > Len(depKeys)
    /\ pc' = "returned"
    /\ result' = IssueGraph(relevant_file_structure, Len(relevant_files))
    /\ UNCHANGED <<cancelled, netCalls, max_files, remote, visited_dirs,
                   all_files, reply, relevant_files, tpc, tdata,
                   file_contents, depKeys, dependencies,
                   relevant_file_structure, finIdx>>
    /\ UNCHANGED offPipe

Next ==
    \/ Abort
    \/ DiscoverTree
    \/ \E d \in RepoDirs : ExploreDir(d)
    \/ ExploreDone
    \/ IdentifyCall
    \/ IdentifyReply
    \/ BuildEnter
    \/ \E i \in 1..Len(tpc) : TaskStart(i)
    \/ \E i \in 1..Len(tpc) : TaskResponse(i)
    \/ \E i \in 1..Len(tpc) : TaskFinish(i)
    \/ GatherDone
    \/ FinalizeStep
    \/ Return

Spec == Init /\ [][Next]_vars

----------------------------------------------------------------------------
(* github_request, get_file_content, get_file_content_async. *)

\* the wait before a retry after HTTP 429, in seconds
RetryWait == 30

RequestFns == {"github_request", "get_file_content", "get_file_content_async"}

\* What an attempt meets: an HTTP status, "403rl" for a 403 whose body says
\* "rate limit exceeded", or "conn" for a connection error raised by the
\* HTTP client.
Statuses == {"200", "404", "403rl", "403", "429", "500", "conn"}

\* the values of X-RateLimit-Remaining a response may carry
RemainingValues == {0, 5000}

\* time.sleep(wait_time)
Sleep(now, wait_time) ==
    IF now + wait_time > MaxClock THEN MaxClock ELSE now + wait_time

\* the next attempt's number
NextAttempt(n) == IF n < MaxAttempts THEN n + 1 ELSE MaxAttempts

\* `"429" in str(e)` for the exception an attempt ends with
Is429(st) == st = "429"

\* response.raise_for_status() raises for these
IsHttpError(st) == st \in {"403rl", "403", "429", "500"}

\* github_request lines 125-129: the wait after a rate-limit 403
WaitAfter403(reset_time, now) == reset_time - now + 1

\* What an attempt's outcome leads to, in github_request (lines 115-150)
\* and in the two content fetchers (lines 182-203, 227-247):
\*   "sleep403", "sleep429"  wait, then the same request again
\*   "json", "content"       the value returned
\*   "None"                  None returned
\*   "raised"                the exception leaves the function
Handle(fn, st, reset_time, now) ==
    IF fn = "github_request"
    THEN IF st = "conn" THEN "raised"
         ELSE IF st = "403rl" /\ WaitAfter403(reset_time, now) > 0
              THEN "sleep403"
         ELSE IF st = "404" THEN "None"
         ELSE IF IsHttpError(st)
              THEN IF Is429(st) THEN "sleep429" ELSE "raised"
         ELSE "json"
    ELSE IF st = "404" THEN "None"
         ELSE IF st = "conn" THEN "None"
         ELSE IF IsHttpError(st)
              THEN IF Is429(st) THEN "sleep429" ELSE "None"
         ELSE "content"

pipeParked ==
    /\ cancelled = FALSE /\ pc = "parked" /\ netCalls = 0 /\ max_files = 0
    /\ remote = EmptyDict /\ visited_dirs = {} /\ all_files = <<>>
    /\ reply = NoReply /\ relevant_files = <<>> /\ tpc = <<>> /\ tdata = <<>>
    /\ file_contents = EmptyDict /\ depKeys = <<>>
    /\ dependencies = EmptyDict /\ relevant_file_structure = EmptyDict
    /\ finIdx = 0 /\ result = NoResult

InitRequest ==
    /\ pipeParked
    /\ mainParked /\ filterParked /\ exploreParked /\ resolveParked
    /\ solutionParked
    /\ progressiveParked
    /\ sampleParked
    /\ nextjsParked
    /\ excerptParked
    /\ gr_fn = "none"
    /\ gr_pc = "idle"
    /\ clock \in 0..MaxClock
    /\ rate_limit_remaining = 5000
    /\ rate_limit_reset = 0
    /\ status = "none"
    /\ attempts = 0
    /\ gr_result = "none"

\* one of the three functions is called
Call(fn) ==
    /\ gr_pc \in {"idle", "done"}
    /\ gr_fn' = fn
    /\ gr_pc' = IF fn = "github_request" THEN "precheck" ELSE "send"
    /\ status' = "none"
    /\ attempts' = 0
    /\ gr_result' = "none"
    /\ UNCHANGED <<clock, rate_limit_remaining, rate_limit_reset>>
    /\ UNCHANGED offReq

\* github_request lines 108-113: wait for the reset when the quota is nearly
\* used up
PreCheck ==
    /\ gr_pc = "precheck"
    /\ gr_pc' = "send"
    /\ clock' = IF rate_limit_remaining < 10 /\ clock < rate_limit_reset
                THEN Sleep(clock, rate_limit_reset - clock + 1)
                ELSE clock
    /\ UNCHANGED <<gr_fn, rate_limit_remaining, rate_limit_reset, status,
                   attempts, gr_result>>
    /\ UNCHANGED offReq

\* the request is sent and answered; github_request stores the rate-limit
\* headers the response carries
Send ==
    /\ gr_pc = "send"
    /\ gr_pc' = "response"
    /\ attempts' = NextAttempt(attempts)
    /\ \E st \in Statuses : status' = st
    /\ \E dt \in {0, 1} : clock' = Sleep(clock, dt)
    /\ IF gr_fn = "github_request" /\ status' # "conn"
       THEN /\ \E rem \in RemainingValues \cup {rate_limit_remaining} :
                 rate_limit_remaining' = rem
            /\ \E rst \in (0..MaxClock) \cup {rate_limit_reset} :
                 rate_limit_reset' = rst
       ELSE UNCHANGED <<rate_limit_remaining, rate_limit_reset>>
    /\ UNCHANGED <<gr_fn, gr_result>>
    /\ UNCHANGED offReq

\* the answer is handled: a value is returned, the exception is raised, or
\* the function sleeps before trying again
Answer ==
    /\ gr_pc = "response"
    /\ LET h == Handle(gr_fn, status, rate_limit_reset, clock)
       IN  IF h \in {"sleep403", "sleep429"}
           THEN /\ gr_pc' = "sleeping"
                /\ gr_result' = gr_result
           ELSE /\ gr_pc' = "done"
                /\ gr_result' = h
    /\ UNCHANGED <<gr_fn, clock, rate_limit_remaining, rate_limit_reset,
                   status, attempts>>
    /\ UNCHANGED offReq

\* the sleep is over and the function calls itself with the same arguments
Retry ==
    /\ gr_pc = "sleeping"
    /\ clock' = Sleep(clock,
                      IF status = "403rl"
                      THEN WaitAfter403(rate_limit_reset, clock)
                      ELSE RetryWait)
    /\ gr_pc' = IF gr_fn = "github_request" THEN "precheck" ELSE "send"
    /\ UNCHANGED <<gr_fn, rate_limit_remaining, rate_limit_reset, status,
                   attempts, gr_result>>
    /\ UNCHANGED offReq

NextRequest ==
    \/ \E fn \in RequestFns : Call(fn)
    \/ PreCheck
    \/ Send
    \/ Answer
    \/ Retry

SpecRequest == InitRequest /\ [][NextRequest]_vars

\* a function that is running takes its next step, and a request that was
\* sent is answered
SpecRequestFair ==
    /\ InitRequest
    /\ [][NextRequest]_vars
    /\ WF_vars(PreCheck) /\ WF_vars(Send) /\ WF_vars(Answer) /\ WF_vars(Retry)

----------------------------------------------------------------------------
(* main and async_main: the command line, up to the start of the analysis. *)

\* most '/'-separated segments after the host part of a repository URL
MaxSegments == 3

\* how a repo_url argument may begin
UrlPrefixes == {"https://github.com/", "http://github.com/",
                "https://gitlab.com/", "github.com/"}

\* a repo_url is what it begins with and the segments that follow, so
\* "https://github.com/owner//x" is the first prefix and <<"owner", "", "x">>
Urls == [prefix : UrlPrefixes,
         segs : SeqsUpTo({"", "owner", "repo"}, MaxSegments)]

\* the files --issue-file may name, and what reading one gives
IssueFiles == {"missing.txt", "empty.txt", "issue.txt"}
Readable(f) == f # "missing.txt"
FileText(f) == IF f = "issue.txt" THEN "text" ELSE ""

\* Python truth of an optional string
Truthy(v) == v \notin {"None", ""}

\* line 977: the two startswith tests
HasGitHubPrefix(u) == u.prefix \in {"https://github.com/", "http://github.com/"}

\* urlparse(repo_url).path.strip('/').split('/'), line 79: the empty
\* segments at both ends go, those inside stay, and an empty string splits
\* into one empty part
path_parts(u) ==
    LET full == {i \in 1..Len(u.segs) : u.segs[i] # ""}
    IN  IF full = {} THEN <<"">>
        ELSE SubSeq(u.segs, Min(full),
                    CHOOSE j \in full : \A i \in full : i <= j)

\* parse_repo_url: ValueError, or owner and repo
parse_repo_url(u) ==
    LET parts == path_parts(u)
    IN  IF Len(parts) < 2 THEN Raised("ValueError")
        ELSE Returned([owner |-> parts[1], repo |-> parts[2]])

\* sys.exit(code) after printing msg
Exit(code, msg) ==
    /\ m_pc' = "exited"
    /\ exit_status' = code
    /\ message' = msg

InitMain ==
    /\ pipeParked /\ reqIdle
    /\ filterParked /\ exploreParked /\ resolveParked
    /\ solutionParked
    /\ progressiveParked
    /\ sampleParked
    /\ nextjsParked
    /\ excerptParked
    /\ m_pc = "start"
    /\ args \in [repo_url : Urls,
                 issue : {"None", "", "text"},
                 issue_file : {"None"} \cup IssueFiles]
    /\ issue_text = "None"
    /\ exit_status = -1
    /\ message = "none"
    /\ requests_made = 0

\* lines 976-980
ValidateUrl ==
    /\ m_pc = "start"
    /\ IF HasGitHubPrefix(args.repo_url)
       THEN /\ m_pc' = "issue"
            /\ UNCHANGED <<exit_status, message>>
       ELSE Exit(1, "Error: URL is not a GitHub repository URL")
    /\ UNCHANGED <<args, issue_text, requests_made>>
    /\ UNCHANGED offMain

\* lines 983-992
ReadIssue ==
    /\ m_pc = "issue"
    /\ IF Truthy(args.issue)
       THEN /\ issue_text' = args.issue
            /\ m_pc' = "check"
            /\ UNCHANGED <<exit_status, message>>
       ELSE IF Truthy(args.issue_file)
       THEN IF Readable(args.issue_file)
            THEN /\ issue_text' = FileText(args.issue_file)
                 /\ m_pc' = "check"
                 /\ UNCHANGED <<exit_status, message>>
            ELSE /\ Exit(1, "Error reading issue file")
                 /\ UNCHANGED issue_text
       ELSE /\ m_pc' = "check"
            /\ UNCHANGED <<issue_text, exit_status, message>>
    /\ UNCHANGED <<args, requests_made>>
    /\ UNCHANGED offMain

\* lines 994-997
CheckIssue ==
    /\ m_pc = "check"
    /\ IF Truthy(issue_text)
       THEN /\ m_pc' = "construct"
            /\ UNCHANGED <<exit_status, message>>
       ELSE Exit(1, "Error: Issue text is required")
    /\ UNCHANGED <<args, issue_text, requests_made>>
    /\ UNCHANGED offMain

\* async_main, lines 931-933 and 955-959: the analyzers are constructed; a
\* ValueError of parse_repo_url is caught, printed, and ends the process
Construct ==
    /\ m_pc = "construct"
    /\ IF parse_repo_url(args.repo_url).raised
       THEN Exit(1, "Error analyzing repository: Invalid GitHub URL")
       ELSE /\ m_pc' = "analyze"
            /\ UNCHANGED <<exit_status, message>>
    /\ UNCHANGED <<args, issue_text, requests_made>>
    /\ UNCHANGED offMain

\* line 939: analyze_issue begins, and get_relevant_repo_files sends the
\* first request, to api.github.com/repos/<owner>/<repo>
Analyze ==
    /\ m_pc = "analyze"
    /\ m_pc' = "analyzing"
    /\ requests_made' = requests_made + 1
    /\ UNCHANGED <<args, issue_text, exit_status, message>>
    /\ UNCHANGED offMain

\* lines 945-959: the result is written and summarised, or an exception of
\* the analysis is printed and the process exits with 1
Finish ==
    /\ m_pc = "analyzing"
    /\ \E ok \in BOOLEAN :
         IF ok THEN Exit(0, "Issue Analysis Summary")
         ELSE Exit(1, "Error analyzing repository")
    /\ UNCHANGED <<args, issue_text, requests_made>>
    /\ UNCHANGED offMain

NextMain ==
    \/ ValidateUrl
    \/ ReadIssue
    \/ CheckIssue
    \/ Construct
    \/ Analyze
    \/ Finish

SpecMain == InitMain /\ [][NextMain]_vars

----------------------------------------------------------------------------
(* get_relevant_repo_files: the filter over the repository tree.  Here a   *)
(* path is the sequence of the pieces of its text, "/" being a piece of    *)
(* its own: "src/checkout/cart.ts" is                                      *)
(* <<"src", "/", "check", "out", "/", "cart", ".ts">>.                     *)

\* longest tree listing
MaxTree == 2

\* get_relevant_repo_files' default max_files, the value analyze_issue
\* calls it with
DefaultMaxFiles == 300

\* the substrings that exclude a path, lines 362-366
ignored_list ==
    <<  <<"node_modules", "/">>, <<".git", "/">>, <<".next", "/">>,
        <<"out", "/">>, <<"build", "/">>, <<"dist", "/">>,
        <<"test", "/">>, <<"tests", "/">>, <<"__tests__", "/">>,
        <<"__mocks__", "/">>, <<".storybook", "/">>, <<"e2e", "/">>,
        <<".github", "/">>, <<"coverage", "/">>, <<"fixtures", "/">>,
        <<"cypress", "/">>  >>

\* the entries a tree listing may hold
TreeItems ==
    { [type |-> "blob", path |-> <<"src", "/", "index", ".ts">>],
      [type |-> "blob", path |-> <<"src", "/", "readme", ".md">>],
      [type |-> "blob",
       path |-> <<"node_modules", "/", "pkg", "/", "index", ".js">>],
      [type |-> "blob", path |-> <<"out", "/", "page", ".js">>],
      [type |-> "blob",
       path |-> <<"src", "/", "check", "out", "/", "cart", ".ts">>],
      [type |-> "blob", path |-> <<"la", "test", "/", "notes", ".tsx">>],
      [type |-> "blob", path |-> <<"out", ".ts">>],
      [type |-> "tree", path |-> <<"src">>] }

\* path.endswith(ext)
EndsWith(path, ext) == path # <<>> /\ path[Len(path)] = ext

\* `ignored in path`: the substring test
IsSubstring(needle, hay) ==
    \E i \in 0..(Len(hay) - Len(needle)) :
       SubSeq(hay, i + 1, i + Len(needle)) = needle

\* lines 357-367: the test one tree item passes to enter code_files
IsCodeFile(item) ==
    /\ item.type = "blob"
    /\ \E k \in 1..Len(extensions) : EndsWith(item.path, extensions[k])
    /\ ~ \E k \in 1..Len(ignored_list) :
           IsSubstring(ignored_list[k], item.path)

\* the paths of the items of a list
PathsOf(items) == [i \in 1..Len(items) |-> items[i].path]

\* lines 355-377, for a tree of at most max_files code files
get_relevant_repo_files(items) == PathsOf(SelectSeq(items, IsCodeFile))

InitFilter ==
    /\ pipeParked /\ reqIdle
    /\ mainParked /\ exploreParked /\ resolveParked
    /\ solutionParked
    /\ progressiveParked
    /\ sampleParked
    /\ nextjsParked
    /\ excerptParked
    /\ f_pc = "start"
    /\ repo_tree \in SeqsUpTo(TreeItems, MaxTree)
    /\ code_files = <<>>

\* get_relevant_repo_files(), below the sampling limit
GetRelevantRepoFiles ==
    /\ f_pc = "start"
    /\ Len(get_relevant_repo_files(repo_tree)) <= DefaultMaxFiles
    /\ code_files' = get_relevant_repo_files(repo_tree)
    /\ f_pc' = "returned"
    /\ UNCHANGED repo_tree
    /\ UNCHANGED offFilter

NextFilter == GetRelevantRepoFiles

SpecFilter == InitFilter /\ [][NextFilter]_vars

----------------------------------------------------------------------------
(* explore_repository: the directory-by-directory walk, each level handing *)
(* its sub-directories to a thread pool of its own.                        *)

\* ThreadPoolExecutor(max_workers=4), line 288
max_workers == 4

\* explore_repository's max_depth default
max_depth == 5

\* a listing of the contents endpoint: sub-directories and files, in order
Listing(dirs, files) == [dirs |-> dirs, files |-> files]

\* a root with five leaf directories
ShapeFlat ==
    (<<>> :> Listing(<< <<"a">>, <<"b">>, <<"c">>, <<"d">>, <<"e">> >>,
                     << <<"README.md">> >>))
    @@ [d \in { <<"a">>, <<"b">>, <<"c">>, <<"d">>, <<"e">> } |->
          Listing(<<>>, << d \o <<"index.ts">> >>)]

\* a root with two directories, of three and of two leaf directories
ShapeNested ==
    (<<>> :> Listing(<< <<"a">>, <<"b">> >>, <<>>))
    @@ (<<"a">> :> Listing(<< <<"a", "x">>, <<"a", "y">>, <<"a", "z">> >>,
                           <<>>))
    @@ (<<"b">> :> Listing(<< <<"b", "x">>, <<"b", "y">> >>, <<>>))
    @@ [d \in { <<"a", "x">>, <<"a", "y">>, <<"a", "z">>,
                <<"b", "x">>, <<"b", "y">> } |->
          Listing(<<>>, << d \o <<"index.ts">> >>)]

\* one directory inside the other, six deep
ShapeChain ==
    [d \in {SubSeq(<<"n", "n", "n", "n", "n", "n">>, 1, k) : k \in 0..6} |->
       IF Len(d) < 6 THEN Listing(<< d \o <<"n">> >>, <<>>)
       ELSE Listing(<<>>, << d \o <<"index.ts">> >>)]

\* a root whose listing names the directory a twice
ShapeTwice ==
    (<<>> :> Listing(<< <<"a">>, <<"a">> >>, <<>>))
    @@ (<<"a">> :> Listing(<<>>, << <<"a", "index.ts">> >>))

Shapes == {ShapeFlat, ShapeNested, ShapeChain, ShapeTwice}

\* len(path.split('/')): the empty path splits into one empty part
SplitLen(path) == IF path = <<>> THEN 1 ELSE Len(path)

\* A call of explore_repository is named by the positions that lead to it:
\* <<>> is the first call, c \o <<k>> the call submitted for the k-th
\* directory of the listing call c received.
RECURSIVE DirIn(_, _)
\* the `path` argument of a call
DirIn(sh, c) ==
    IF c = <<>> THEN <<>>
    ELSE sh[DirIn(sh, SubSeq(c, 1, Len(c) - 1))].dirs[c[Len(c)]]

RECURSIVE CallsBelow(_, _)
\* a call and the calls that can follow from it
CallsBelow(sh, c) ==
    {c} \cup UNION {CallsBelow(sh, c \o <<k>>) :
                      k \in 1..Len(sh[DirIn(sh, c)].dirs)}

\* the `path` argument of a call of this exploration
DirOf(c) == DirIn(shape, c)

\* the calls a call's executor was given, in submission order
Submitted(c) == [k \in 1..Len(shape[DirOf(c)].dirs) |-> c \o <<k>>]

\* the calls of c's executor that occupy a worker thread
OnWorker(c) ==
    {k \in 1..Len(Submitted(c)) :
       e_pc[Submitted(c)[k]] \in {"check", "add", "listing", "waiting"}}

\* the calls of c's executor still in its queue
Queued(c) ==
    {k \in 1..Len(Submitted(c)) : e_pc[Submitted(c)[k]] = "queued"}

\* the calls that have ended: by the guard, by return, or by exception
Ended(c) == e_pc[c] \in {"skipped", "done", "raised"}

RECURSIVE Gathered(_, _)
\* lines 294-295: the futures' results, appended in submission order
Gathered(calls, ret) ==
    IF calls = <<>> THEN <<>>
    ELSE ret[Head(calls)] \o Gathered(Tail(calls), ret)

InitExplore ==
    /\ pipeParked /\ reqIdle
    /\ mainParked /\ filterParked /\ resolveParked
    /\ solutionParked
    /\ progressiveParked
    /\ sampleParked
    /\ nextjsParked
    /\ excerptParked
    /\ shape \in Shapes
    /\ e_pc = [c \in CallsBelow(shape, <<>>) |->
                 IF c = <<>> THEN "check" ELSE "idle"]
    /\ e_visited = {}
    /\ e_ret = [c \in CallsBelow(shape, <<>>) |-> <<>>]

\* a worker thread of the parent's executor takes the next call of its queue
WorkerTakes(p, k) ==
    /\ e_pc[p] = "waiting"
    /\ k \in Queued(p)
    /\ \A j \in Queued(p) : k <= j
    /\ Cardinality(OnWorker(p)) < max_workers
    /\ e_pc' = [e_pc EXCEPT ![Submitted(p)[k]] = "check"]
    /\ UNCHANGED <<shape, e_visited, e_ret>>
    /\ UNCHANGED offExplore

\* lines 263-264: the guard
CheckVisited(c) ==
    /\ e_pc[c] = "check"
    /\ e_pc' = [e_pc EXCEPT ![c] =
                  IF DirOf(c) \in e_visited \/ SplitLen(DirOf(c)) > max_depth
                  THEN "skipped" ELSE "add"]
    /\ UNCHANGED <<shape, e_visited, e_ret>>
    /\ UNCHANGED offExplore

\* lines 266-269: the path is added and the listing is requested
AddAndRequest(c) ==
    /\ e_pc[c] = "add"
    /\ e_visited' = e_visited \cup {DirOf(c)}
    /\ e_pc' = [e_pc EXCEPT ![c] = "listing"]
    /\ UNCHANGED <<shape, e_ret>>
    /\ UNCHANGED offExplore

\* lines 269-292: github_request returns None, raises, or returns the
\* listing, whose directories are submitted to a new executor
Listed(c) ==
    /\ e_pc[c] = "listing"
    /\ \E outcome \in {"none", "error", "list"} :
         IF outcome = "none"
         THEN /\ e_pc' = [e_pc EXCEPT ![c] = "done"]
              /\ UNCHANGED e_ret
         ELSE IF outcome = "error"
         THEN /\ e_pc' = [e_pc EXCEPT ![c] = "raised"]
              /\ UNCHANGED e_ret
         ELSE IF shape[DirOf(c)].dirs = <<>>
         THEN /\ e_pc' = [e_pc EXCEPT ![c] = "done"]
              /\ e_ret' = [e_ret EXCEPT ![c] = shape[DirOf(c)].files]
         ELSE /\ e_pc' = [x \in DOMAIN e_pc |->
                            IF x = c THEN "waiting"
                            ELSE IF x \in Range(Submitted(c)) THEN "queued"
                            ELSE e_pc[x]]
              /\ UNCHANGED e_ret
    /\ UNCHANGED <<shape, e_visited>>
    /\ UNCHANGED offExplore

\* lines 294-297: every future has ended; the results are joined, or the
\* first exception is raised again
Joined(c) ==
    /\ e_pc[c] = "waiting"
    /\ \A x \in Range(Submitted(c)) : Ended(x)
    /\ IF \E x \in Range(Submitted(c)) : e_pc[x] = "raised"
       THEN /\ e_pc' = [e_pc EXCEPT ![c] = "raised"]
            /\ UNCHANGED e_ret
       ELSE /\ e_pc' = [e_pc EXCEPT ![c] = "done"]
            /\ e_ret' = [e_ret EXCEPT ![c] =
                           shape[DirOf(c)].files
                           \o Gathered(Submitted(c), e_ret)]
    /\ UNCHANGED <<shape, e_visited>>
    /\ UNCHANGED offExplore

NextExplore ==
    \/ \E p \in DOMAIN e_pc : \E k \in 1..Len(Submitted(p)) :
          WorkerTakes(p, k)
    \/ \E c \in DOMAIN e_pc : CheckVisited(c)
    \/ \E c \in DOMAIN e_pc : AddAndRequest(c)
    \/ \E c \in DOMAIN e_pc : Listed(c)
    \/ \E c \in DOMAIN e_pc : Joined(c)

SpecExplore == InitExplore /\ [][NextExplore]_vars

----------------------------------------------------------------------------
(* process_file's resolution of one import string, lines 871-888.          *)

\* longest selected list the resolution is tried against
MaxSelected == 2

UtilsJs == <<"src", "pages", "utils.js">>
LibIndexTs == <<"src", "pages", "lib", "index.ts">>

\* the files a selected list may name
ResolveFiles == {IndexTsx, UtilsTs, UtilsJs, LibIndexTs}

\* the import strings resolved: './utils', './utils.ts', './lib',
\* './ghost' and 'react'
ResolveImports ==
    { <<".", "utils">>, <<".", "utils.ts">>, <<".", "lib">>,
      <<".", "ghost">>, <<"react">> }

InitResolve ==
    /\ pipeParked /\ reqIdle
    /\ mainParked /\ filterParked /\ exploreParked
    /\ solutionParked
    /\ progressiveParked
    /\ sampleParked
    /\ nextjsParked
    /\ excerptParked
    /\ rs_pc = "start"
    /\ rs_file_path \in {IndexTsx, LibIndexTs}
    /\ rs_import_path \in ResolveImports
    /\ rs_relevant_files \in SeqsUpTo(ResolveFiles, MaxSelected)
    /\ rs_imports = <<>>

\* one turn of the loop at line 871
ResolveImport ==
    /\ rs_pc = "start"
    /\ rs_imports' = EdgeOf(rs_file_path, rs_import_path,
                            rs_relevant_files, EmptyDict)
    /\ rs_pc' = "resolved"
    /\ UNCHANGED <<rs_file_path, rs_import_path, rs_relevant_files>>
    /\ UNCHANGED offResolve

NextResolve == ResolveImport

SpecResolve == InitResolve /\ [][NextResolve]_vars

----------------------------------------------------------------------------
(* extract_relevant_code and _extract_imports_section.  A text is the      *)
(* sequence of its lines, as split('\n') gives them: the empty string is   *)
(* <<"">>, and None is <<>>.                                               *)

\* most lines that are varied at the head of a file
MaxLines == 2

\* the number of leading lines the fallback excerpt keeps
HeadLines == 20

\* the lines a file's head is made of
LineAlphabet ==
    {"import a from 'a'", "const b = require('b')", "import './side.css'",
     "", "  ", "code();"}

\* re.match of the two patterns of line 825
IsImportLine(line) ==
    line \in {"import a from 'a'", "const b = require('b')"}

\* not line.strip()
IsBlank(line) == line \in {"", "  "}

\* n lines of code
Filler(n) == [i \in 1..n |-> "code();"]

\* the contents served: a varied head, then no or many lines of code, then
\* possibly one more line; or no content
Contents ==
    {<<>>, <<"">>}
    \cup {head \o Filler(n) \o tail :
            head \in SeqsUpTo(LineAlphabet, MaxLines) \ {<<>>},
            n \in {0, HeadLines - 1, HeadLines + 10},
            tail \in {<<>>, <<"handleLogin();">>, <<"import a from 'a'">>}}

\* the replies of the chat call: an exception, a text without code blocks,
\* or a text whose code blocks re.findall returns
ExcerptReplies ==
    {[kind |-> "error", blocks |-> <<>>],
     [kind |-> "text", blocks |-> <<>>],
     [kind |-> "text", blocks |-> << <<"">> >>],
     [kind |-> "text", blocks |-> << <<"function f() {", "}">> >>],
     [kind |-> "text", blocks |-> << <<"f();">>, <<"g();">> >>]}

\* '\n'.join(lines)
JoinLines(lines) == IF lines = <<>> THEN <<"">> ELSE lines

RECURSIVE JoinBlocks(_)
\* "\n\n".join(code_blocks)
JoinBlocks(blocks) ==
    IF blocks = <<>> THEN <<"">>
    ELSE IF Len(blocks) = 1 THEN Head(blocks)
    ELSE Head(blocks) \o <<"">> \o JoinBlocks(Tail(blocks))

\* a + "\n\n" + b
WithGap(a, b) == a \o <<"">> \o b

\* a scan that gathers every import line of the file
ScanImports_all(lines, imports) ==
    SelectSeq(lines, IsImportLine)

RECURSIVE ScanImports(_, _)
\* the loop of lines 824-832 over the lines left, `imports` so far
ScanImports(lines, imports) ==
    IF lines = <<>> THEN imports
    ELSE IF IsImportLine(Head(lines))
    THEN ScanImports(Tail(lines), Append(imports, Head(lines)))
    ELSE IF imports # <<>> /\ IsBlank(Head(lines))
    THEN ScanImports(Tail(lines), Append(imports, Head(lines)))
    ELSE IF imports # <<>> THEN imports
    ELSE ScanImports(Tail(lines), imports)

\* _extract_imports_section(content)
extract_imports_section(content) == JoinLines(ScanImports(content, <<>>))

\* lines 808-811 and 816-819: the first lines and, for a longer file, the mark
first_part(content) ==
    IF Len(content) > HeadLines
    THEN SubSeq(content, 1, HeadLines) \o <<"// ... rest of file omitted">>
    ELSE content

\* the fallback excerpt
fallback_excerpt(section, content) == WithGap(section, first_part(content))

\* return ""
ReturnEmpty ==
    /\ x_pc' = "empty"
    /\ x_excerpt' = <<"">>

InitExcerpt ==
    /\ pipeParked /\ reqIdle /\ mainParked /\ filterParked /\ exploreParked
    /\ solutionParked
    /\ progressiveParked
    /\ sampleParked
    /\ nextjsParked
    /\ resolveParked
    /\ x_pc = "start"
    /\ x_cancelled = FALSE
    /\ x_content \in Contents
    /\ x_reply = <<>>
    /\ imports_section = <<>>
    /\ x_excerpt = <<>>

\* handle_abort_signal, delivered while extract_relevant_code runs
ExcerptAbort ==
    /\ x_pc \in {"start", "fetch", "call", "reply"}
    /\ ~x_cancelled
    /\ x_cancelled' = TRUE
    /\ UNCHANGED <<x_pc, x_content, x_reply, imports_section, x_excerpt>>
    /\ UNCHANGED offExcerpt

\* lines 747-750
ExcerptEnter ==
    /\ x_pc = "start"
    /\ IF x_cancelled THEN ReturnEmpty
       ELSE x_pc' = "fetch" /\ UNCHANGED x_excerpt
    /\ UNCHANGED <<x_cancelled, x_content, x_reply, imports_section>>
    /\ UNCHANGED offExcerpt

\* lines 750-755: the content arrives and the imports section is taken
ExcerptContent ==
    /\ x_pc = "fetch"
    /\ IF x_content \in {<<>>, <<"">>} \/ x_cancelled
       THEN ReturnEmpty /\ UNCHANGED imports_section
       ELSE /\ x_pc' = "call"
            /\ imports_section' = extract_imports_section(x_content)
            /\ UNCHANGED x_excerpt
    /\ UNCHANGED <<x_cancelled, x_content, x_reply>>
    /\ UNCHANGED offExcerpt

\* lines 771-784: the chat call is made
ExcerptCall ==
    /\ x_pc = "call"
    /\ IF x_cancelled THEN ReturnEmpty /\ UNCHANGED x_reply
       ELSE /\ x_pc' = "reply"
            /\ x_reply' \in ExcerptReplies
            /\ UNCHANGED x_excerpt
    /\ UNCHANGED <<x_cancelled, x_content, imports_section>>
    /\ UNCHANGED offExcerpt

\* lines 786-819: the reply, or the exception, is handled
ExcerptReply ==
    /\ x_pc = "reply"
    /\ IF x_cancelled THEN ReturnEmpty
       ELSE IF x_reply.kind = "text" /\ x_reply.blocks # <<>>
       THEN /\ x_pc' = "blocks"
            /\ x_excerpt' = WithGap(imports_section,
                                    JoinBlocks(x_reply.blocks))
       ELSE /\ x_pc' = "fallback"
            /\ x_excerpt' = fallback_excerpt(imports_section, x_content)
    /\ UNCHANGED <<x_cancelled, x_content, x_reply, imports_section>>
    /\ UNCHANGED offExcerpt

NextExcerpt ==
    \/ ExcerptAbort
    \/ ExcerptEnter
    \/ ExcerptContent
    \/ ExcerptCall
    \/ ExcerptReply

SpecExcerpt == InitExcerpt /\ [][NextExcerpt]_vars

----------------------------------------------------------------------------
(* nextjs_analyzer.py: analyze_nextjs_app and process_directory.  A         *)
(* directory name is the sequence of the pieces of its text: "[...slug]"   *)
(* is <<"[", "...", "slug", "]">>.                                         *)

\* most sub-directories of the app directory
MaxSubdirs == 2

\* the directory names met: app, [id], [...slug], [[...slug]], (shop),
\* @modal, (.)photo, Admin
DirNames ==
    { <<"app">>,
      <<"[", "id", "]">>,
      <<"[", "...", "slug", "]">>,
      <<"[", "[", "...", "slug", "]", "]">>,
      <<"(", "shop", ")">>,
      <<"@", "modal">>,
      <<"(", ".", ")", "photo">>,
      <<"Admin">> }

\* what app_dir may name: nothing, a file, or a directory and the
\* directories inside it
AppDirs ==
    {[kind |-> k, name |-> <<"app">>, subdirs |-> <<>>] :
        k \in {"missing", "file"}}
    \cup [kind : {"dir"}, name : DirNames,
          subdirs : SeqsUpTo(DirNames, MaxSubdirs)]

\* dir_name.startswith(prefix)
NameStartsWith(name, prefix) ==
    Len(name) >= Len(prefix) /\ SubSeq(name, 1, Len(prefix)) = prefix

\* dir_name.endswith(suffix)
NameEndsWith(name, suffix) ==
    /\ Len(name) >= Len(suffix)
    /\ SubSeq(name, Len(name) - Len(suffix) + 1, Len(name)) = suffix

\* re.match(r"^\(\.+\)", dir_name)
IsIntercepting(name) ==
    /\ NameStartsWith(name, <<"(">>)
    /\ \E k \in 2..(Len(name) - 1) :
          /\ \A j \in 2..k : name[j] \in {".", "..", "..."}
          /\ name[k + 1] = ")"

\* str.lower() of one piece
Lower(piece) == IF piece = "Admin" THEN "admin" ELSE piece

\* any(keyword in str(relative_path).lower() for keyword in keywords)
IsProtected(relative_path) ==
    \E i \in 1..Len(relative_path) : \E j \in 1..Len(relative_path[i]) :
       Lower(relative_path[i][j])
          \in {"auth", "protected", "private", "admin", "dashboard"}

\* the flags dict of lines 81-91
FlagsOf(dir_name, relative_path) ==
    [route_group |-> /\ NameStartsWith(dir_name, <<"(">>)
                     /\ NameEndsWith(dir_name, <<")">>),
     dynamic |-> /\ NameStartsWith(dir_name, <<"[">>)
                 /\ ~NameStartsWith(dir_name, <<"[", "...">>)
                 /\ NameEndsWith(dir_name, <<"]">>),
     catch_all |-> /\ NameStartsWith(dir_name, <<"[", "...">>)
                   /\ NameEndsWith(dir_name, <<"]">>),
     optional_catch_all |-> /\ NameStartsWith(dir_name, <<"[", "[", "...">>)
                            /\ NameEndsWith(dir_name, <<"]", "]">>),
     parallel |-> NameStartsWith(dir_name, <<"@">>),
     intercepting |-> IsIntercepting(dir_name),
     protected |-> IsProtected(relative_path)]

\* the result dict process_directory starts for one directory
DirResult(relative_path) ==
    [name |-> relative_path[Len(relative_path)],
     path |-> relative_path,
     type |-> "directory",
     flags |-> FlagsOf(relative_path[Len(relative_path)], relative_path)]

InitNextjs ==
    /\ pipeParked /\ reqIdle /\ mainParked /\ filterParked /\ exploreParked
    /\ solutionParked
    /\ progressiveParked
    /\ sampleParked
    /\ resolveParked /\ excerptParked
    /\ n_pc = "start"
    /\ app_dir \in AppDirs
    /\ n_todo = <<>>
    /\ n_done = <<>>
    /\ n_written = {}
    /\ n_message = "none"
    /\ n_exit = -1

\* lines 136-139: the path is tested
CheckAppDir ==
    /\ n_pc = "start"
    /\ IF app_dir.kind # "dir"
       THEN /\ n_message' = "Error: not a valid directory"
            /\ n_pc' = "returned"
            /\ UNCHANGED n_todo
       ELSE /\ n_pc' = "walking"
            /\ n_todo' = << <<app_dir.name>> >>
                         \o [k \in 1..Len(app_dir.subdirs) |->
                               <<app_dir.name, app_dir.subdirs[k]>>]
            /\ UNCHANGED n_message
    /\ UNCHANGED <<app_dir, n_done, n_written, n_exit>>
    /\ UNCHANGED offNextjs

\* process_directory, for the next directory of the walk
ProcessDirectory ==
    /\ n_pc = "walking"
    /\ n_todo # <<>>
    /\ n_done' = Append(n_done, DirResult(Head(n_todo)))
    /\ n_todo' = Tail(n_todo)
    /\ UNCHANGED <<n_pc, app_dir, n_written, n_message, n_exit>>
    /\ UNCHANGED offNextjs

\* lines 143-146: the structure is written, or open() raises
WriteStructure ==
    /\ n_pc = "walking"
    /\ n_todo = <<>>
    /\ \E ok \in BOOLEAN :
         IF ok THEN /\ n_written' = n_written \cup {"structure.json"}
                    /\ n_message' = "App structure saved"
                    /\ n_pc' = "diagram"
               ELSE /\ n_message' = "Traceback"
                    /\ n_pc' = "raised"
                    /\ UNCHANGED n_written
    /\ UNCHANGED <<app_dir, n_todo, n_done, n_exit>>
    /\ UNCHANGED offNextjs

\* line 148: generate_component_dependencies writes the diagram
WriteDiagram ==
    /\ n_pc = "diagram"
    /\ n_written' = n_written \cup {"structure.md"}
    /\ n_message' = "Component dependencies diagram saved"
    /\ n_pc' = "returned"
    /\ UNCHANGED <<app_dir, n_todo, n_done, n_exit>>
    /\ UNCHANGED offNextjs

\* lines 271-277: analyze_nextjs_app has returned, or raised, and the
\* interpreter exits
ProcessEnds ==
    /\ n_pc \in {"returned", "raised"}
    /\ n_exit' = IF n_pc = "raised" THEN 1 ELSE 0
    /\ n_pc' = "exited"
    /\ UNCHANGED <<app_dir, n_todo, n_done, n_written, n_message>>
    /\ UNCHANGED offNextjs

NextNextjs ==
    \/ CheckAppDir
    \/ ProcessDirectory
    \/ WriteStructure
    \/ WriteDiagram
    \/ ProcessEnds

SpecNextjs == InitNextjs /\ [][NextNextjs]_vars

----------------------------------------------------------------------------
(* _smart_sample_files and the branch of get_relevant_repo_files that      *)
(* calls it.  Paths are sequences of pieces, as in the filter above.       *)

\* longest list of code files
MaxCode == 3

\* largest max_files argument of the sampling
MaxSample == 3

\* the module-level KEY_DIRECTORIES
KEY_DIRECTORIES ==
    <<  <<"src", "/">>, <<"app", "/">>, <<"pages", "/">>,
        <<"components", "/">>, <<"lib", "/">>, <<"utils", "/">>,
        <<"hooks", "/">>, <<"contexts", "/">>, <<"services", "/">>,
        <<"api", "/">>, <<"routes", "/">>, <<"modules", "/">>  >>

\* the code files a list may name, in the order of their strings:
\* app/page.tsx, lib/db.ts, scripts/build.js, src/a.js, src/b.jsx,
\* src/deep/c.js, src/util.mjs, tool.ts
SampleFileOrder ==
    <<  <<"app", "/", "page", ".tsx">>,
        <<"lib", "/", "db", ".ts">>,
        <<"scripts", "/", "build", ".js">>,
        <<"src", "/", "a", ".js">>,
        <<"src", "/", "b", ".jsx">>,
        <<"src", "/", "deep", "/", "c", ".js">>,
        <<"src", "/", "util", ".mjs">>,
        <<"tool", ".ts">>  >>

\* any(file_path.startswith(key_dir) for key_dir in KEY_DIRECTORIES)
InKeyDirectory(p) ==
    \E k \in 1..Len(KEY_DIRECTORIES) : NameStartsWith(p, KEY_DIRECTORIES[k])

\* len(Path(p).parts)
PartsLen(p) == Cardinality({i \in 1..Len(p) : p[i] = "/"}) + 1

\* the place of a path's string among the strings
PathRank(p) ==
    CHOOSE k \in 1..Len(SampleFileOrder) : SampleFileOrder[k] = p

\* the sort key of line 400 puts a before b
KeyBefore(a, b) ==
    \/ PartsLen(a) < PartsLen(b)
    \/ PartsLen(a) = PartsLen(b) /\ PathRank(a) < PathRank(b)

RECURSIVE InsertByKey(_, _)
InsertByKey(x, sorted) ==
    IF sorted = <<>> THEN <<x>>
    ELSE IF KeyBefore(x, Head(sorted)) THEN <<x>> \o sorted
    ELSE <<Head(sorted)>> \o InsertByKey(x, Tail(sorted))

RECURSIVE SortByKey(_)
\* key_dir_files.sort(key=...), a stable sort
SortByKey(files) ==
    IF files = <<>> THEN <<>>
    ELSE InsertByKey(files[Len(files)],
                     SortByKey(SubSeq(files, 1, Len(files) - 1)))

\* lines 403-407: the five extension groups of the key-directory files
ExtensionGroups(key_dir_files) ==
    <<  SelectSeq(key_dir_files, LAMBDA f : EndsWith(f, ".js")),
        SelectSeq(key_dir_files, LAMBDA f : EndsWith(f, ".jsx")),
        SelectSeq(key_dir_files, LAMBDA f : EndsWith(f, ".ts")),
        SelectSeq(key_dir_files, LAMBDA f : EndsWith(f, ".tsx")),
        SelectSeq(key_dir_files,
                  LAMBDA f : ~ \E e \in {".js", ".jsx", ".ts", ".tsx"} :
                                 EndsWith(f, e))  >>

RECURSIVE SumSeq(_)
SumSeq(ns) == IF ns = <<>> THEN 0 ELSE Head(ns) + SumSeq(Tail(ns))

Max2(a, b) == IF a >= b THEN a ELSE b

RECURSIVE AdjustPass(_, _, _, _)
\* lines 440-444: one run of the for loop, from position i
AdjustPass(allocations, file_groups, i, key_allocation) ==
    IF i > Len(allocations) THEN allocations
    ELSE IF allocations[i] < Len(file_groups[i])
    THEN LET raised == [allocations EXCEPT ![i] = @ + 1]
         IN  IF SumSeq(raised) >= key_allocation THEN raised
             ELSE AdjustPass(raised, file_groups, i + 1, key_allocation)
    ELSE AdjustPass(allocations, file_groups, i + 1, key_allocation)

RECURSIVE Adjust(_, _, _)
\* lines 439-444: the while loop
Adjust(allocations, file_groups, key_allocation) ==
    IF /\ SumSeq(allocations) < key_allocation
       /\ \E i \in 1..Len(allocations) :
             allocations[i] < Len(file_groups[i])
    THEN Adjust(AdjustPass(allocations, file_groups, 1, key_allocation),
                file_groups, key_allocation)
    ELSE allocations

RECURSIVE TakeEach(_, _)
\* lines 447-448: group[:allocation] of every group, in order
TakeEach(file_groups, allocations) ==
    IF file_groups = <<>> THEN <<>>
    ELSE Take(Head(file_groups), Head(allocations))
         \o TakeEach(Tail(file_groups), Tail(allocations))

\* selected_files as it stands before the last line of _smart_sample_files
selected_files(files, maxFiles) ==
    LET key_dir_files == SortByKey(SelectSeq(files, InKeyDirectory))
        other_files == SelectSeq(files, LAMBDA f : ~InKeyDirectory(f))
        key_allocation == Min({(maxFiles * 8) \div 10, Len(key_dir_files)})
        other_allocation ==
            Min({maxFiles - key_allocation, Len(other_files)})
        file_groups == SelectSeq(ExtensionGroups(key_dir_files),
                                 LAMBDA g : Len(g) > 0)
        total_size == Len(key_dir_files)
        allocations ==
            [i \in 1..Len(file_groups) |->
               Max2(1, (key_allocation * Len(file_groups[i]))
                          \div total_size)]
    IN  (IF total_size > 0
         THEN TakeEach(file_groups,
                       Adjust(allocations, file_groups, key_allocation))
         ELSE <<>>)
        \o Take(other_files, other_allocation)

\* a sampling that returns all it selected
smart_sample_files_unsliced(files, maxFiles) == selected_files(files, maxFiles)

\* _smart_sample_files(code_files, max_files)
smart_sample_files(files, maxFiles) ==
    Take(selected_files(files, maxFiles), maxFiles)

InitSample ==
    /\ pipeParked /\ reqIdle /\ mainParked /\ filterParked /\ exploreParked
    /\ solutionParked
    /\ progressiveParked
    /\ resolveParked /\ excerptParked /\ nextjsParked
    /\ s_pc = "start"
    /\ s_code_files \in SeqsUpTo(Range(SampleFileOrder), MaxCode)
    /\ s_max_files \in 0..MaxSample
    /\ s_result = <<>>

\* lines 369-375: more code files than max_files, the list is sampled
ReturnSampled ==
    /\ s_pc = "start"
    /\ Len(s_code_files) > s_max_files
    /\ s_result' = smart_sample_files(s_code_files, s_max_files)
    /\ s_pc' = "sampled"
    /\ UNCHANGED <<s_code_files, s_max_files>>
    /\ UNCHANGED offSample

\* line 377: the list is returned as it is
ReturnAll ==
    /\ s_pc = "start"
    /\ Len(s_code_files) <= s_max_files
    /\ s_result' = s_code_files
    /\ s_pc' = "all"
    /\ UNCHANGED <<s_code_files, s_max_files>>
    /\ UNCHANGED offSample

\* _smart_sample_files called on a list of any length
SampleCalled ==
    /\ s_pc = "start"
    /\ s_result' = smart_sample_files(s_code_files, s_max_files)
    /\ s_pc' = "called"
    /\ UNCHANGED <<s_code_files, s_max_files>>
    /\ UNCHANGED offSample

NextSample ==
    \/ ReturnSampled
    \/ ReturnAll
    \/ SampleCalled

SpecSample == InitSample /\ [][NextSample]_vars

----------------------------------------------------------------------------
(* progressive_repo_exploration: the recursive tree request and the        *)
(* fallback to explore_repository.                                         *)

\* the answers of github_request to the tree request: an exception, None
\* (a 404), or a dict that may hold 'tree' and may hold 'truncated'
TreeAnswers ==
    {[kind |-> k, has_tree |-> FALSE, tree |-> <<>>, truncated |-> "absent"] :
        k \in {"raise", "none"}}
    \cup [kind : {"dict"}, has_tree : {TRUE},
          tree : SeqsUpTo(TreeItems, MaxTree),
          truncated : {"absent", "false", "true"}]
    \cup [kind : {"dict"}, has_tree : {FALSE}, tree : {<<>>},
          truncated : {"absent", "false", "true"}]

\* what explore_repository() may give: a list of items, or an exception
Explorations ==
    {[raised |-> TRUE, items |-> <<>>]}
    \cup {[raised |-> FALSE, items |-> l] : l \in SeqsUpTo(TreeItems, 1)}

\* Python truth of tree_data: None and the empty dict are false
TreeDataTruthy(td) ==
    td.kind = "dict" /\ (td.has_tree \/ td.truncated # "absent")

\* tree_data.get('truncated', False)
Truncated(td) == td.truncated = "true"

\* a test that takes every answer holding 'tree'
ReturnsTree_anyTree(td) == TreeDataTruthy(td) /\ td.has_tree

\* line 314: the test under which tree_data['tree'] is returned
ReturnsTree(td) ==
    TreeDataTruthy(td) /\ td.has_tree /\ ~Truncated(td)

InitProgressive ==
    /\ pipeParked /\ reqIdle /\ mainParked /\ filterParked /\ exploreParked
    /\ solutionParked
    /\ resolveParked /\ excerptParked /\ nextjsParked /\ sampleParked
    /\ p_pc = "start"
    /\ tree_data \in TreeAnswers
    /\ p_explored \in Explorations
    /\ p_result = <<>>

\* lines 309-324: the tree request is answered; a complete tree is returned
TreeRequest ==
    /\ p_pc = "start"
    /\ IF tree_data.kind # "raise" /\ ReturnsTree(tree_data)
       THEN /\ p_pc' = "returned_tree"
            /\ p_result' = tree_data.tree
       ELSE /\ p_pc' = "exploring"
            /\ UNCHANGED p_result
    /\ UNCHANGED <<tree_data, p_explored>>
    /\ UNCHANGED offProgressive

\* lines 326-329: explore_repository returns, or its exception goes on
ExploreReturns ==
    /\ p_pc = "exploring"
    /\ IF p_explored.raised
       THEN /\ p_pc' = "raised"
            /\ UNCHANGED p_result
       ELSE /\ p_pc' = "returned_explored"
            /\ p_result' = p_explored.items
    /\ UNCHANGED <<tree_data, p_explored>>
    /\ UNCHANGED offProgressive

NextProgressive ==
    \/ TreeRequest
    \/ ExploreReturns

SpecProgressive == InitProgressive /\ [][NextProgressive]_vars

----------------------------------------------------------------------------
(* openai_service.py: get_repo_analysis and the /generate-solution handler. *)
(* A Python value is given by its type: "None", "dict", "empty dict",      *)
(* "str", "empty str".                                                     *)

\* the states of the stored analysis file: no file, a file json.load fails
\* on, a JSON object, the empty object, a JSON string, the empty JSON string
AnalysisFiles ==
    {"absent", "unreadable", "dict", "empty dict", "str", "empty str"}

\* the states of the stored summary file
SummaryFiles == {"absent", "unreadable", "empty str", "str"}

\* Python truth of a value
ValueTruthy(v) == v \in {"dict", "str"}

\* "..." + v raises TypeError unless v is a str
ConcatRaises(v) == v \notin {"str", "empty str"}

\* lines 65-68: the two prints raise
PrintRaises(analysis, summary) ==
    /\ ~ValueTruthy(analysis) \/ ~ValueTruthy(summary)
    /\ ConcatRaises(analysis) \/ ConcatRaises(summary)

\* except Exception: raise HTTPException(status_code=500), lines 129-130
Respond500 ==
    /\ g_pc' = "responded"
    /\ g_status' = 500

InitSolution ==
    /\ pipeParked /\ reqIdle /\ mainParked /\ filterParked /\ exploreParked
    /\ resolveParked /\ excerptParked /\ nextjsParked /\ sampleParked
    /\ progressiveParked
    /\ g_pc = "start"
    /\ analysis_file \in AnalysisFiles
    /\ summary_file \in SummaryFiles
    /\ repo_analysis = "None"
    /\ repo_summary = "None"
    /\ repo_context = FALSE
    /\ g_called = FALSE
    /\ g_status = 0

\* lines 50-56: the analysis file is read if it exists
ReadAnalysis ==
    /\ g_pc = "start"
    /\ repo_analysis' = IF analysis_file \in {"absent", "unreadable"}
                        THEN "None" ELSE analysis_file
    /\ g_pc' = "summary"
    /\ UNCHANGED <<analysis_file, summary_file, repo_summary, repo_context,
                   g_called, g_status>>
    /\ UNCHANGED offSolution

\* lines 58-64: the summary file is read if it exists
ReadSummary ==
    /\ g_pc = "summary"
    /\ repo_summary' = IF summary_file \in {"absent", "unreadable"}
                       THEN "None" ELSE summary_file
    /\ g_pc' = "print"
    /\ UNCHANGED <<analysis_file, summary_file, repo_analysis, repo_context,
                   g_called, g_status>>
    /\ UNCHANGED offSolution

\* lines 65-70: the prints for missing values, then the return; a TypeError
\* is caught by the handler
PrintMissing ==
    /\ g_pc = "print"
    /\ IF PrintRaises(repo_analysis, repo_summary)
       THEN Respond500
       ELSE g_pc' = "prompt" /\ UNCHANGED g_status
    /\ UNCHANGED <<analysis_file, summary_file, repo_analysis, repo_summary,
                   repo_context, g_called>>
    /\ UNCHANGED offSolution

\* lines 79-109: the prompt is built
BuildPrompt ==
    /\ g_pc = "prompt"
    /\ repo_context' = ValueTruthy(repo_summary)
    /\ g_pc' = "call"
    /\ UNCHANGED <<analysis_file, summary_file, repo_analysis, repo_summary,
                   g_called, g_status>>
    /\ UNCHANGED offSolution

\* lines 111-130: the chat call and the response
CallModel ==
    /\ g_pc = "call"
    /\ g_called' = TRUE
    /\ \E ok \in BOOLEAN :
         IF ok THEN g_pc' = "responded" /\ g_status' = 200
         ELSE Respond500
    /\ UNCHANGED <<analysis_file, summary_file, repo_analysis, repo_summary,
                   repo_context>>
    /\ UNCHANGED offSolution

NextSolution ==
    \/ ReadAnalysis
    \/ ReadSummary
    \/ PrintMissing
    \/ BuildPrompt
    \/ CallModel

SpecSolution == InitSolution /\ [][NextSolution]_vars

----------------------------------------------------------------------------
(* The claims. *)

\* the relevant_files dict of the returned result
Out == result.relevant_files

\* analyze_issue returned and the flag was never set
Completed == pc = "returned" /\ ~cancelled

\* the internal edges of an imports list, as (import string, target) pairs
InternalEdges(imports) ==
    {<<imports[k].path, imports[k].resolved>> :
       k \in {j \in 1..Len(imports) : imports[j].type = "internal"}}

\* C1: once the abort handler has set the flag, no step of analyze_issue
\* starts another outbound network call.
C1_NoCallAfterAbort == [][cancelled => netCalls' = netCalls]_vars

\* the keys of a result analyze_issue builds for a run that completed
OrdinaryKeys == {"project", "relevant_files", "metadata"}
OrdinaryMetadataKeys == {"total_relevant_files"}

\* C2: a result returned after the abort signal was observed does not have
\* the shape of a normally completed result: it carries a mark of its own.
C2_AbortedResultIsMarked ==
    (pc = "returned" /\ cancelled)
        => \/ DOMAIN result # OrdinaryKeys
           \/ DOMAIN result.metadata # OrdinaryMetadataKeys

\* the replies for which the keyword fallback is due
NeedsFallback(r) ==
    \/ r.kind \in {"error", "garbage", "scalar"}
    \/ r.kind = "array" /\ validated_files(r.paths, all_files) = <<>>

\* C3: when the reply is unusable (the call failed, the text is no JSON
\* array, or no path of it is known) and the run is not cancelled,
\* identify_relevant_files returns a list of at most max_files known paths
\* and raises nothing.
C3_FallbackReturnsShortlist ==
    (NeedsFallback(reply) /\ ~cancelled)
        => /\ pc # "raised"
           /\ Range(relevant_files) \subseteq Range(all_files)
           /\ Len(relevant_files) <= max_files

\* identify_relevant_files has returned a list
Identified ==
    pc \in {"identified", "gathering", "finalizing", "returned"}

\* C4: every path of the list identify_relevant_files returns is in
\* all_files, and the list has at most max_files entries.
C4_ReturnedPathsKnown ==
    Identified
        => /\ Range(relevant_files) \subseteq Range(all_files)
           /\ Len(relevant_files) <= max_files

\* C4's case: the reply named an unknown path beside a known one, and a
\* non-empty list was returned.
C4_Witness ==
    /\ pc = "identified"
    /\ reply.kind = "array"
    /\ UnknownJs \in Range(reply.paths)
    /\ relevant_files # <<>>

\* C5: in the returned structure, an internal edge of A resolved to B means
\* B is in the structure and its imported_by holds A exactly once.
C5_EdgeHasBackRef ==
    Completed
        => \A A \in DOMAIN Out :
             \A e \in InternalEdges(Out[A].imports) :
                /\ e[2] \in DOMAIN Out
                /\ Count(Out[e[2]].imported_by, A) = 1

\* the files of the selection that are served with a non-empty text
ExpectedFiles == {f \in Range(relevant_files) : ~IsFalsy(remote[f])}

\* the selected files that the text of f imports: for each relative import,
\* the first extension that names a selected file
ExpectedTargets(f) ==
    {t \in Range(relevant_files) :
       \E ip \in Range(extract_imports(remote[f])) :
          /\ StartsWithDot(ip)
          /\ \E k \in 1..Len(extensions) :
               /\ t = WithExt(JoinPath(Parent(f), ip), extensions[k])
               /\ \A j \in 1..(k - 1) :
                    WithExt(JoinPath(Parent(f), ip), extensions[j])
                        \notin Range(relevant_files)}

\* C6: with the selected list and the served contents fixed, the files of
\* the result, each file's internal edge targets and each file's imported_by
\* set are functions of those inputs alone: the order in which the tasks
\* complete does not show in them.
C6_GraphSetsDetermined ==
    Completed /\ relevant_files # <<>>
        => /\ DOMAIN Out = ExpectedFiles
           /\ \A f \in DOMAIN Out :
                /\ {e[2] : e \in InternalEdges(Out[f].imports)}
                     = ExpectedTargets(f)
                /\ Range(Out[f].imported_by)
                     = {g \in ExpectedFiles : f \in ExpectedTargets(g)}

\* C6's case: two files that import each other were selected and the task
\* started second completed first.
C6_Witness ==
    /\ Completed
    /\ relevant_files = <<IndexTsx, UtilsTs>>
    /\ depKeys = <<UtilsTs, IndexTsx>>
    /\ Out[IndexTsx].imported_by = <<UtilsTs>>
    /\ Out[UtilsTs].imported_by = <<IndexTsx>>

RECURSIVE Normalize(_)
\* a path with each ".." segment cancelled against the segment before it
Normalize(p) ==
    IF p = <<>> THEN <<>>
    ELSE LET init == Normalize(SubSeq(p, 1, Len(p) - 1))
             last == p[Len(p)]
         IN  IF last = ".." /\ init # <<>> /\ init[Len(init)] # ".."
             THEN SubSeq(init, 1, Len(init) - 1)
             ELSE Append(init, last)

\* C7: a relative import is resolved against the importing file's
\* directory, "./" naming a sibling and each ".." the parent directory: when
\* the base path so obtained plus an extension is a selected file, the
\* importing file has an internal edge to it.
C7_RelativeImportResolved ==
    Completed
        => \A A \in DOMAIN Out :
             \A ip \in Range(extract_imports(remote[A])) :
               \A k \in 1..Len(extensions) :
                 LET base == Normalize(JoinPath(Parent(A), ip))
                 IN  (/\ StartsWithDot(ip)
                      /\ WithExt(base, extensions[k]) \in Range(relevant_files)
                      /\ \A j \in 1..(k - 1) :
                           WithExt(base, extensions[j])
                               \notin Range(relevant_files))
                     => <<ip, WithExt(base, extensions[k])>>
                            \in InternalEdges(Out[A].imports)

\* C8: every import string extracted from a processed file has an entry in
\* that file's imports list.
C8_EveryImportRecorded ==
    Completed
        => \A A \in DOMAIN Out :
             \A ip \in Range(extract_imports(remote[A])) :
               \E k \in 1..Len(Out[A].imports) : Out[A].imports[k].path = ip

\* C9: a response that signals an exhausted quota never makes
\* github_request raise, whatever the advertised reset time is.
C9_ExhaustedQuotaRetried ==
    ~(/\ gr_fn = "github_request"
      /\ gr_pc = "done"
      /\ status = "403rl"
      /\ gr_result = "raised")

\* C10: a request that was sent comes to an end, by returning or by raising,
\* unless some attempt is answered with something other than HTTP 429.
C10_RetryingEnds ==
    [](gr_pc = "send"
         => <>(gr_pc = "done" \/ (gr_pc = "response" /\ status # "429")))

\* the selected files whose fetch fails: a 404 or a client error
FailedFetches ==
    {f \in Range(relevant_files) : remote[f].http \in {"404", "error"}}

C14_LinksInsideSelection ==
    Completed
        => \A A \in DOMAIN Out :
             /\ \A e \in InternalEdges(Out[A].imports) : e[2] \in DOMAIN Out
             /\ Range(Out[A].imported_by) \subseteq DOMAIN Out

\* the imported_by lists written so far, in the structure being built
BackRefsWritten ==
    {p \in DOMAIN relevant_file_structure :
       relevant_file_structure[p].imported_by # <<>>}

\* C15: while a process_file task has not completed, the imported_by loop
\* has not started and no imported_by entry has been written.
C15_BackRefsAfterAllTasks ==
    (\E j \in 1..Len(tpc) : tpc[j] # "done")
        => /\ pc \notin {"finalizing", "returned"}
           /\ BackRefsWritten = {}
           /\ \A j \in 1..Len(tdata) :
                tdata[j].present => tdata[j].imported_by = <<>>

\* C15's case: two tasks have completed and the loop has written a
\* back-reference.
C15_Witness ==
    /\ pc = "finalizing"
    /\ Len(tpc) >= 2
    /\ BackRefsWritten # {}

\* C18: a connection error that is not an HTTP 429 does not end a request
\* on its first occurrence: the request is tried again first.
C18_ConnectionErrorRetried ==
    (gr_pc = "done" /\ status = "conn") => attempts >= 2

\* C19: a run that returns has passed through per-file processing and the
\* back-reference pass (finIdx is 0 until the gather is over and the pass
\* begins).
C19_NoPhaseSkipped ==
    pc = "returned" => all_files # <<>> /\ finIdx >= 1

\* C20: no path has its content requested by two tasks, and no path has two
\* excerpting tasks, also when the selected list names it more than once.
C20_PathProcessedOnce ==
    \A i, j \in 1..Len(tpc) :
       (i # j /\ relevant_files[i] = relevant_files[j])
          => /\ ~(tpc[i] = "fetching" /\ tpc[j] = "fetching")
             /\ ~(/\ tpc[i] \in {"excerpting", "done"}
                  /\ tpc[j] \in {"excerpting", "done"}
                  /\ tdata[i].present /\ tdata[j].present)

\* a GitHub repository URL: a github.com prefix, then an owner and a
\* repository name, neither of them empty
ValidRepoUrl(u) ==
    /\ u.prefix \in {"https://github.com/", "http://github.com/"}
    /\ LET full == {i \in 1..Len(u.segs) : u.segs[i] # ""}
       IN  /\ full # {}
           /\ Min(full) + 1 \in full

\* an issue text was supplied: by --issue, or by a readable, non-empty
\* --issue-file
IssueSupplied ==
    \/ args.issue \notin {"None", ""}
    \/ args.issue_file \in {"issue.txt"}

\* C12: with an invalid repository URL or no issue text, no network request
\* is made and no analysis begins, and the process exits with a non-zero
\* status and a message.
C12_InvalidInputFailsFast ==
    (~ValidRepoUrl(args.repo_url) \/ ~IssueSupplied)
        => /\ requests_made = 0
           /\ m_pc # "analyzing"
           /\ m_pc = "exited" => exit_status # 0 /\ message # "none"

RECURSIVE SplitOn(_, _)
\* the parts of a path between its separators
SplitOn(path, sep) ==
    IF sep \notin Range(path) THEN <<path>>
    ELSE LET i == Min({k \in 1..Len(path) : path[k] = sep})
         IN  <<SubSeq(path, 1, i - 1)>>
             \o SplitOn(SubSeq(path, i + 1, Len(path)), sep)

\* the directory components of a path: all its parts but the file name
DirComponents(path) ==
    LET parts == SplitOn(path, "/")
    IN  {parts[k] : k \in 1..(Len(parts) - 1)}

\* the excluded directory names, as whole names
ExcludedDirNames ==
    {<<ignored_list[k][1]>> : k \in 1..Len(ignored_list)}

\* a blob with a supported extension that lies under no excluded directory
ExpectedCodeFile(item) ==
    /\ item.type = "blob"
    /\ \E k \in 1..Len(extensions) : EndsWith(item.path, extensions[k])
    /\ DirComponents(item.path) \cap ExcludedDirNames = {}

\* C13: below the sampling limit the result is exactly the blobs with a
\* supported extension none of whose directory components is, as a whole
\* name, an excluded directory name.
C13_ExclusionByWholeDirName ==
    f_pc = "returned"
        => code_files = PathsOf(SelectSeq(repo_tree, ExpectedCodeFile))

\* the directory listings requested and not yet answered
InFlight == {c \in DOMAIN e_pc : e_pc[c] = "listing"}

\* C16: at most 4 directory-listing requests are in flight at any moment of
\* an exploration, whatever the shape of the repository.
C16_AtMostFourListings == Cardinality(InFlight) <= 4

\* the extensions, by position, that make a file of the list out of a stem
ExtHits(stem, files) ==
    {k \in 1..Len(extensions) : WithExt(stem, extensions[k]) \in Range(files)}

\* a path that is a directory: some file of the list lies below it
IsDirectory(base, files) ==
    \E f \in Range(files) :
       Len(f) > Len(base) /\ SubSeq(f, 1, Len(base)) = base

\* the file chosen for a base path: the exact path, else the first
\* extension that names a file, else an index file of the directory
ChosenFile(base, files) ==
    IF base \in Range(files) THEN <<base>>
    ELSE IF ExtHits(base, files) # {}
    THEN <<WithExt(base, extensions[Min(ExtHits(base, files))])>>
    ELSE IF /\ IsDirectory(base, files)
            /\ ExtHits(base \o <<"index">>, files) # {}
    THEN <<WithExt(base \o <<"index">>,
                   extensions[Min(ExtHits(base \o <<"index">>, files))])>>
    ELSE <<>>

\* C17: the file an import's base path resolves to is the exact path if it
\* is a file, else the base path with the first extension that names a
\* file, else, for a directory, its index file.
C17_ResolutionOrder ==
    (rs_pc = "resolved" /\ StartsWithDot(rs_import_path))
        => [k \in 1..Len(rs_imports) |-> rs_imports[k].resolved]
             = ChosenFile(JoinPath(Parent(rs_file_path), rs_import_path),
                          rs_relevant_files)

\* the calls that passed the guard of lines 263-264
PassedGuard ==
    {c \in DOMAIN e_pc : e_pc[c] \in {"add", "listing", "waiting",
                                       "done", "raised"}}

\* C21: no two calls of explore_repository pass the visited_dirs guard for
\* the same directory path, so no directory is listed twice in one
\* exploration.
C21_GuardIsExclusive ==
    \A c1, c2 \in PassedGuard :
       DirOf(c1) = DirOf(c2) => c1 = c2

\* the positions of a file's import/require lines
ImportLineAt(content) == {i \in 1..Len(content) : IsImportLine(content[i])}

\* the file's import block: from the first import/require line up to, but
\* not including, the first later line that is neither one nor blank
ImportBlock(content) ==
    IF ImportLineAt(content) = {} THEN <<"">>
    ELSE LET first == Min(ImportLineAt(content))
             stops == {i \in (first + 1)..Len(content) :
                         ~IsImportLine(content[i]) /\ ~IsBlank(content[i])}
             last == IF stops = {} THEN Len(content) ELSE Min(stops) - 1
         IN  SubSeq(content, first, last)

\* text t begins with the lines of block b, the last one ended by a newline
BeginsWithBlock(t, b) ==
    Len(t) > Len(b) /\ SubSeq(t, 1, Len(b)) = b

\* extract_relevant_code has returned for a file with content, no abort
ExcerptGiven ==
    /\ x_pc \in {"empty", "blocks", "fallback"}
    /\ ~x_cancelled
    /\ x_content \notin {<<>>, <<"">>}

\* C22: for a file with content, in a run that is not cancelled, the excerpt
\* begins with the file's import block: the lines from the first
\* import/require line up to the first later line that is neither an
\* import/require line nor blank.
C22_ExcerptBeginsWithImports ==
    ExcerptGiven
        => /\ x_pc # "empty"
           /\ imports_section = ImportBlock(x_content)
           /\ BeginsWithBlock(x_excerpt, ImportBlock(x_content))

\* C22's case: an excerpt was returned for a file whose import block is
\* followed by code and by a later import line.
C22_Witness ==
    /\ ExcerptGiven
    /\ ImportLineAt(x_content) # {}
    /\ \E i \in ImportLineAt(x_content) :
          i >= Min(ImportLineAt(x_content)) + Len(ImportBlock(x_content))

\* a line that contains a keyword of the issue, whatever its case
HasKeyword(line) == line = "handleLogin();"

\* the lines the fallback excerpt is to keep: the first 20 and every line
\* within 10 lines of a keyword line
KeptLines(content) ==
    {i \in 1..Len(content) :
       \/ i <= 20
       \/ \E k \in 1..Len(content) :
             /\ HasKeyword(content[k])
             /\ i >= k - 10 /\ i <= k + 10}

\* C23: when no code block is obtained, the excerpt holds the first 20
\* lines of the file and every line within 10 lines of a keyword line.
C23_FallbackKeepsKeywordWindows ==
    (x_pc = "fallback" /\ ~x_cancelled)
        => \A i \in KeptLines(x_content) :
              \E j \in 1..Len(x_excerpt) : x_excerpt[j] = x_content[i]

\* C24: for a path that does not exist or is not a directory, no directory
\* is walked, no output file is written, a message is printed, and the
\* program ends with a non-zero exit status.
C24_BadAppDirFailsFast ==
    (app_dir.kind # "dir" /\ n_pc # "start")
        => /\ n_done = <<>> /\ n_todo = <<>>
           /\ n_written = {}
           /\ n_message # "none"
           /\ n_pc = "exited" => n_exit # 0

\* the route flags of a result dict that are set
RouteFlagsSet(r) ==
    {f \in {"dynamic", "catch_all", "optional_catch_all"} : r.flags[f]}

\* C29: process_directory sets at most one of dynamic, catch_all and
\* optional_catch_all for a directory.
C29_OneRouteFlag ==
    \A k \in 1..Len(n_done) : Cardinality(RouteFlagsSet(n_done[k])) <= 1

\* a list that names no path twice
NoDuplicates(files) ==
    \A i, j \in 1..Len(files) : files[i] = files[j] => i = j

\* _smart_sample_files has returned
Sampled == s_pc \in {"sampled", "called"}

\* C25, as stated: for every input list the sample has at most max_files
\* paths, all from code_files, none twice.
C25_SampleBoundedAndDistinct ==
    Sampled
        => /\ Len(s_result) <= s_max_files
           /\ Range(s_result) \subseteq Range(s_code_files)
           /\ NoDuplicates(s_result)

\* C25, amended: the sample has at most max_files paths, all from
\* code_files, and names no path twice when code_files names none twice;
\* get_relevant_repo_files returns at most max_files paths when there are
\* more code files than that.
C25_SampleBoundedDistinctInput ==
    /\ Sampled
         => /\ Len(s_result) <= s_max_files
            /\ Range(s_result) \subseteq Range(s_code_files)
            /\ NoDuplicates(s_code_files) => NoDuplicates(s_result)
    /\ (s_pc # "start" /\ Len(s_code_files) > s_max_files)
         => Len(s_result) <= s_max_files

\* C25's case: a list of distinct paths, longer than max_files, holding key
\* and other files, was sampled down to max_files paths.
C25_Witness ==
    /\ s_pc = "sampled"
    /\ NoDuplicates(s_code_files)
    /\ s_max_files >= 2
    /\ Len(s_result) = s_max_files
    /\ \E i \in 1..Len(s_code_files) : InKeyDirectory(s_code_files[i])
    /\ \E i \in 1..Len(s_code_files) : ~InKeyDirectory(s_code_files[i])

\* the tree request gave a listing that is not marked as truncated
CompleteTree ==
    /\ tree_data.kind = "dict"
    /\ tree_data.has_tree
    /\ tree_data.truncated # "true"

\* C26: the recursive tree is returned only when it is complete; in every
\* other case what is returned is the result of explore_repository, and a
\* listing marked as truncated is never returned.
C26_TruncatedTreeNeverReturned ==
    /\ p_pc = "returned_tree"
         => CompleteTree /\ p_result = tree_data.tree
    /\ (p_pc \notin {"start", "exploring"} /\ ~CompleteTree)
         => IF p_explored.raised THEN p_pc = "raised"
            ELSE p_pc = "returned_explored" /\ p_result = p_explored.items

\* C26's case: a non-empty listing marked as truncated arrived and the
\* exploration's result was returned in its place.
C26_Witness ==
    /\ p_pc = "returned_explored"
    /\ tree_data.kind = "dict" /\ tree_data.has_tree
    /\ tree_data.truncated = "true"
    /\ tree_data.tree # <<>>
    /\ p_result # tree_data.tree

\* C27: in every returned result, metadata.total_relevant_files is the
\* number of entries of relevant_files in that result.
C27_TotalCountsEntries ==
    pc = "returned"
        => result.metadata.total_relevant_files
             = Cardinality(DOMAIN result.relevant_files)

\* the analysis file or the summary file is absent or unreadable
MissingContext ==
    \/ analysis_file \in {"absent", "unreadable"}
    \/ summary_file \in {"absent", "unreadable"}

\* C28: with the analysis file or the summary file absent or unreadable,
\* the handler has called the model, with a prompt without repository
\* context, before it responds; it does not answer 500 without that call.
C28_MissingContextStillAnswers ==
    (g_pc = "responded" /\ MissingContext)
        => g_called /\ ~repo_context

====
